---- MODULE Spec2Model ----
(***************************************************************************)
(* A model of libkrb's level-compressed trie (krb/lc_trie.hpp), in its     *)
(* lc_trie<ipv4> instantiation: 32-bit addresses, 32-bit packed nodes.     *)
(*                                                                         *)
(* Addresses are bit vectors, most significant bit first (index 1), since  *)
(* a uint32_t does not fit the model checker's integers.  C++ vectors are  *)
(* sequences; At(v, i) reads the element the code calls v[i].  A value     *)
(* that a function computes once and uses several times is handed to a     *)
(* second operator as an argument, which the model checker evaluates once. *)
(***************************************************************************)
EXTENDS Integers, Sequences, FiniteSets, TLC

VARIABLES
  trie,                        \* std::vector<node_t> trie
  base,                        \* std::vector<base_t> base
  comp_fill_factor,            \* double, kept as a fraction <<num, den>>
  comp_root_branching_factor,  \* int
  cached_stats,                \* std::string; NoStats is the empty string
  file,                        \* the one file save/load work on
  shiftMode,                   \* what the build's shifts by >= 32 bits give
  last,                        \* the last call: operation, argument, result
  calls,                       \* the calls of the query phase's threads
  rpool,                       \* a resource_pool and the threads calling it
  tpool,                       \* a thread_pool, its workers and its event loop
  lru,                         \* an lru_cache_t and the calls made on it
  sync                         \* a synchronizer_t, its writer and its readers

vars == <<trie, base, comp_fill_factor, comp_root_branching_factor,
          cached_stats, file, shiftMode, last, calls, rpool, tpool, lru, sync>>

(* the library's other classes: none of them is used by the trie, and a    *)
(* program that only uses the trie has no object of them                   *)
utilities == <<rpool, tpool, lru, sync>>

NoObject == <<>>

NoUtilities ==
  /\ rpool = NoObject
  /\ tpool = NoObject
  /\ lru = NoObject
  /\ sync = NoObject

object == <<trie, base, comp_fill_factor, comp_root_branching_factor, cached_stats>>

----------------------------------------------------------------------------
(* ipv4: typedef uint32_t ipv4 *)

adrsize == 32

Bits == {0, 1}

ipv4 == [1..adrsize -> Bits]

ZeroIP == [i \in 1..adrsize |-> 0]

At(v, i) == v[i + 1]

Pow2(n) == 2 ^ n

(* strtoip<ipv4>: the four bytes of the dotted quad, buf[0] the top byte *)
strtoip(b0, b1, b2, b3) ==
  [i \in 1..adrsize |->
     LET byte == CASE i <= 8  -> b0
                   [] i <= 16 -> b1
                   [] i <= 24 -> b2
                   [] OTHER   -> b3
         k == (i - 1) % 8
     IN  (byte \div Pow2(7 - k)) % 2]

(* The shift count the hardware uses.  A count outside 0..31 is undefined  *)
(* behaviour in C++: an x86 build takes the count modulo 32, an ARM build  *)
(* shifts every bit out.  shiftMode says which build this is.              *)
ShiftCount(k) ==
  IF k \in 0..(adrsize - 1) THEN k
  ELSE IF shiftMode = "mask" THEN k % adrsize
  ELSE adrsize

(* bit i of (str << left) >> right *)
ShiftedBit(str, left, right, i) ==
  IF i > right /\ i - right + left <= adrsize THEN str[i - right + left] ELSE 0

(* extract n bits from str starting at position p: str << p >> (32 - n) *)
EXTRACT(p, n, str) ==
  LET left == ShiftCount(p)
      right == ShiftCount(adrsize - n)
  IN  [i \in 1..adrsize |-> ShiftedBit(str, left, right, i)]

(* the same value as a number, where the code compares it with a bit       *)
(* pattern or adds it to an index: the bits from right + 1 on, the others  *)
(* being zero                                                              *)
RECURSIVE ValueOf(_, _, _, _, _)
ValueOf(str, left, right, from, to) ==
  IF from > to THEN 0
  ELSE IF from = to THEN ShiftedBit(str, left, right, from)
  ELSE ValueOf(str, left, right, from, (from + to) \div 2) * Pow2(to - (from + to) \div 2)
         + ValueOf(str, left, right, (from + to) \div 2 + 1, to)

ExtractValue(p, n, str) ==
  ValueOf(str, ShiftCount(p), ShiftCount(adrsize - n), ShiftCount(adrsize - n) + 1, adrsize)

(* remove the first p bits from string: str << p >> p *)
REMOVE(p, str) ==
  LET c == ShiftCount(p)
  IN  [i \in 1..adrsize |-> ShiftedBit(str, c, c, i)]

(* operator^ and the orderings of uint32_t *)
Xor(a, b) == [i \in 1..adrsize |-> (a[i] + b[i]) % 2]

RECURSIVE LessIn(_, _, _, _)
LessIn(a, b, from, to) ==
  IF from = to THEN a[from] < b[from]
  ELSE IF \A i \in from..((from + to) \div 2) : a[i] = b[i]
       THEN LessIn(a, b, (from + to) \div 2 + 1, to)
       ELSE LessIn(a, b, from, (from + to) \div 2)

Less(a, b) == LessIn(a, b, 1, adrsize)

----------------------------------------------------------------------------
(* node_t: 5 bits of branch, 7 bits of skip, 20 bits of address *)

BranchShift == 27
SkipShift == 20
SkipMask == 127
AdrMask == 1048575

(* a | b on values of w bits *)
RECURSIVE OrBits(_, _, _)
OrBits(a, b, w) ==
  IF a = 0 THEN b
  ELSE IF b = 0 THEN a
  ELSE IF w = 1 THEN 1
  ELSE OrBits(a \div Pow2(w \div 2), b \div Pow2(w \div 2), w - w \div 2) * Pow2(w \div 2)
         + OrBits(a % Pow2(w \div 2), b % Pow2(w \div 2), w \div 2)

BitOr(a, b) == OrBits(a, b, adrsize)

SETBRANCH(branch) == (branch % Pow2(adrsize - BranchShift)) * Pow2(BranchShift)
GETBRANCH(n) == n \div Pow2(BranchShift)
SETSKIP(skip) == (skip % Pow2(adrsize - SkipShift)) * Pow2(SkipShift)
GETSKIP(n) == (n \div Pow2(SkipShift)) % (SkipMask + 1)
SETADR(adr) == adr
GETADR(n) == n % (AdrMask + 1)

----------------------------------------------------------------------------
(* lc_trie::search.  The result records, beside the answer, how many       *)
(* elements of the node array and of the base vector the call read, and    *)
(* whether it left the arrays (an out-of-range read) or never reached a    *)
(* leaf.                                                                   *)

SearchResult(found, fault, nodeReads, baseReads) ==
  [found |-> found, fault |-> fault, nodeReads |-> nodeReads, baseReads |-> baseReads]

(* a search that trusts the descent: whatever leaf it reaches is a hit *)
HitAtAnyLeaf(b, adr, ip) == TRUE

(* the leaf: was this a hit? *)
Hit(b, adr, ip) ==
  LET bitmask == Xor(At(b, adr).str, ip)
  IN  EXTRACT(0, At(b, adr).len, bitmask) = ZeroIP

(* the while loop, entered with the node just read, its fields, the bit    *)
(* position and the number of nodes read so far                            *)
RECURSIVE Descend(_, _, _, _, _, _, _)
RECURSIVE Step(_, _, _, _, _, _, _)
Descend(t, b, ip, pos, branch, adr, reads) ==
  IF branch # 0
  THEN IF reads > Len(t) \/ adr + ExtractValue(pos, branch, ip) >= Len(t)
       THEN SearchResult(FALSE, TRUE, reads, 0)
       ELSE Step(t, b, ip, pos, branch, At(t, adr + ExtractValue(pos, branch, ip)), reads)
  ELSE IF adr >= Len(b)
       THEN SearchResult(FALSE, TRUE, reads, 0)
       ELSE SearchResult(Hit(b, adr, ip), FALSE, reads, 1)

Step(t, b, ip, pos, branch, node, reads) ==
  Descend(t, b, ip, pos + branch + GETSKIP(node), GETBRANCH(node), GETADR(node), reads + 1)

(* a search without the test for an empty node array: trie[0] is read *)
searchUnguarded(t, b, ip) ==
  IF Len(t) = 0
  THEN SearchResult(FALSE, TRUE, 1, 0)
  ELSE Descend(t, b, ip, GETSKIP(At(t, 0)), GETBRANCH(At(t, 0)), GETADR(At(t, 0)), 1)

search(t, b, ip) ==
  IF Len(t) = 0
  THEN SearchResult(FALSE, FALSE, 0, 0)
  ELSE Descend(t, b, ip, GETSKIP(At(t, 0)), GETBRANCH(At(t, 0)), GETADR(At(t, 0)), 1)

----------------------------------------------------------------------------
(* comparator_t::strcmp and the sort of build.  An input list is kept as   *)
(* runs <<entry, number of consecutive copies>>, so that a list of 2^19    *)
(* entries can be written down; an ordinary list has runs of one.          *)

strcmp(a, b) ==
  IF Less(a.str, b.str) THEN -1
  ELSE IF Less(b.str, a.str) THEN 1
  ELSE IF a.len < b.len THEN -1
  ELSE IF a.len > b.len THEN 1
  ELSE 0

RECURSIVE ListSize(_)
ListSize(strings) ==
  IF strings = <<>> THEN 0 ELSE Head(strings).n + ListSize(Tail(strings))

RunEntries(strings) == {strings[i].e : i \in 1..Len(strings)}

RECURSIVE CopiesOf(_, _)
CopiesOf(strings, e) ==
  IF strings = <<>> THEN 0
  ELSE (IF Head(strings).e = e THEN Head(strings).n ELSE 0) + CopiesOf(Tail(strings), e)

RECURSIVE SortEntries(_)
RECURSIVE LeastFirst(_, _)
SortEntries(S) ==
  IF S = {} THEN <<>>
  ELSE LeastFirst(S, CHOOSE x \in S : \A y \in S : strcmp(x, y) <= 0)

LeastFirst(S, m) == <<m>> \o SortEntries(S \ {m})

WithCopies(strings, sorted) ==
  [i \in 1..Len(sorted) |-> [e |-> sorted[i], n |-> CopiesOf(strings, sorted[i])]]

(* a build that leaves the list in the order it was given *)
SortSkipped(strings) == strings

(* std::sort(strings.begin(), strings.end(), comp) *)
Sort(strings) == WithCopies(strings, SortEntries(RunEntries(strings)))

(* the loop of build that removes duplicates: an element is pushed when it *)
(* differs from the one before it                                          *)
RECURSIVE PushDistinct(_, _, _)
PushDistinct(b, strings, i) ==
  IF i > Len(strings) THEN b
  ELSE PushDistinct(
         IF i = 1 \/ strcmp(strings[i - 1].e, strings[i].e) # 0
         THEN Append(b, strings[i].e)
         ELSE b,
         strings, i + 1)

----------------------------------------------------------------------------
(* lc_trie::compute_branch *)

Preallocated == 2000000

Fill(k) == comp_fill_factor[1] * k
FillDen(k) == comp_fill_factor[2] * k

(* the first loop: the position of the first bit in which low and high     *)
(* differ.  When they never differ the loop runs on into shifts by 32 and  *)
(* more, where the bits repeat (or are all zero), and does not end: the    *)
(* result is then LoopLimit.                                               *)
LoopLimit == 3 * adrsize

Least(S) == CHOOSE x \in S : \A y \in S : x <= y

Differences(low, high, from) ==
  {i \in from..(LoopLimit - 1) : ExtractValue(i, 1, low) # ExtractValue(i, 1, high)}

FirstOf(D) == IF D = {} THEN LoopLimit ELSE Least(D)

FirstDifference(low, high, from) == FirstOf(Differences(low, high, from))

(* the innermost while loop: the index after the entries from i on that   *)
(* show the pattern pat                                                    *)
RECURSIVE SkipPattern(_, _, _, _, _, _)
SkipPattern(b, newprefix, nbits, end, i, pat) ==
  IF i < end /\ ExtractValue(newprefix, nbits, At(b, i).str) = pat
  THEN SkipPattern(b, newprefix, nbits, end, i + 1, pat)
  ELSE i

(* the loop over the patterns of one round: the number of patterns of      *)
(* nbits bits found in the range, walking the range once                   *)
RECURSIVE CountPatterns(_, _, _, _, _, _, _)
RECURSIVE Counted(_, _, _, _, _, _, _, _)
CountPatterns(b, newprefix, nbits, end, i, pat, count) ==
  IF pat >= Pow2(nbits) THEN count
  ELSE Counted(b, newprefix, nbits, end, i, pat, count,
               SkipPattern(b, newprefix, nbits, end, i, pat))

Counted(b, newprefix, nbits, end, i, pat, count, j) ==
  CountPatterns(b, newprefix, nbits, end, j, pat + 1, IF j > i THEN count + 1 ELSE count)

(* a search that stops at the first branching factor that fails a test    *)
(* and keeps that one                                                      *)
RECURSIVE BranchSearchKeepingLast(_, _, _, _, _)
BranchSearchKeepingLast(b, newprefix, first, n, nbits) ==
  IF FillDen(n) < Fill(Pow2(nbits)) \/ newprefix + nbits > adrsize
  THEN nbits
  ELSE IF FillDen(CountPatterns(b, newprefix, nbits, first + n, first, 0, 0))
            >= Fill(Pow2(nbits))
       THEN BranchSearchKeepingLast(b, newprefix, first, n, nbits + 1)
       ELSE nbits

(* the do loop, entered with b already incremented to nbits *)
RECURSIVE BranchSearch(_, _, _, _, _)
BranchSearch(b, newprefix, first, n, nbits) ==
  IF FillDen(n) < Fill(Pow2(nbits)) \/ newprefix + nbits > adrsize
  THEN nbits - 1
  ELSE IF FillDen(CountPatterns(b, newprefix, nbits, first + n, first, 0, 0))
            >= Fill(Pow2(nbits))
       THEN BranchSearch(b, newprefix, first, n, nbits + 1)
       ELSE nbits - 1

(* a compute_branch that takes at most 8 bits of the root branching factor *)
BranchingCapped(b, prefix, first, n, newprefix) ==
  IF newprefix = LoopLimit
  THEN [hang |-> TRUE, branch |-> 0, newprefix |-> 0]
  ELSE [hang |-> FALSE,
        newprefix |-> newprefix,
        branch |-> IF n = 2 THEN 1
                   ELSE IF comp_root_branching_factor > 0 /\ prefix = 0 /\ first = 0
                        THEN (IF comp_root_branching_factor > 8 THEN 8
                              ELSE comp_root_branching_factor)
                        ELSE BranchSearch(b, newprefix, first, n, 2)]

Branching(b, prefix, first, n, newprefix) ==
  IF newprefix = LoopLimit
  THEN [hang |-> TRUE, branch |-> 0, newprefix |-> 0]
  ELSE [hang |-> FALSE,
        newprefix |-> newprefix,
        branch |-> IF n = 2 THEN 1
                   ELSE IF comp_root_branching_factor > 0 /\ prefix = 0 /\ first = 0
                        THEN comp_root_branching_factor
                        ELSE BranchSearch(b, newprefix, first, n, 2)]

compute_branch(b, prefix, first, n) ==
  LET high == REMOVE(prefix, At(b, first).str)
      low == REMOVE(prefix, At(b, first + n - 1).str)
  IN  Branching(b, prefix, first, n, FirstDifference(low, high, prefix))

----------------------------------------------------------------------------
(* lc_trie::build_recursive.  The pass only writes the node array, so it   *)
(* is carried as the writes made so far (index -> node), with nextfree and *)
(* what stopped the pass, if anything: "hang" (compute_branch never        *)
(* returns) or "overflow" (a write beyond the allocated array).  The log   *)
(* keeps, in their order, the turns of the loops over the bit patterns:    *)
(* which node's children were being laid out and which slots the turn      *)
(* wrote.                                                                  *)

NoFault == "none"

Pass(w, nextfree, fault, log) ==
  [w |-> w, nextfree |-> nextfree, fault |-> fault, log |-> log]

(* one turn of the for loop of the node whose 1 << branch children start   *)
(* at adr and whose range is first..(first + n - 1): k entries from p on   *)
(* match bitpat, and the turn writes 1 << bits slots from adr + bitpat on  *)
Turn(adr, branch, newprefix, first, n, bitpat, p, k, bits, nextfree) ==
  [adr |-> adr, branch |-> branch, newprefix |-> newprefix, first |-> first, n |-> n,
   bitpat |-> bitpat, p |-> p, k |-> k, bits |-> bits, nextfree |-> nextfree]

Logged(st, turn) ==
  IF st.fault # NoFault THEN st
  ELSE Pass(st.w, st.nextfree, NoFault, Append(st.log, turn))

(* tree[idx] = node, in an array of cap elements *)
Store(st, idx, node, cap) ==
  IF st.fault # NoFault THEN st
  ELSE IF idx >= cap THEN Pass(st.w, st.nextfree, "overflow", st.log)
  ELSE Pass((idx :> node) @@ st.w, st.nextfree, NoFault, st.log)

(* for (j = from; j < to; ++j) tree[j] = node, the range being inside the  *)
(* array                                                                   *)
StoreRange(st, from, to, node) ==
  IF st.fault # NoFault THEN st
  ELSE Pass([j \in from..(to - 1) |-> node] @@ st.w, st.nextfree, NoFault, st.log)

(* the while loop that counts the entries from p on that match bitpat *)
RECURSIVE Matching(_, _, _, _, _, _, _)
Matching(b, newprefix, branch, bitpat, p, k, last_) ==
  IF p + k < last_ /\ ExtractValue(newprefix, branch, At(b, p + k).str) = bitpat
  THEN Matching(b, newprefix, branch, bitpat, p, k + 1, last_)
  ELSE k

Node(branch, skip, adr) ==
  BitOr(BitOr(SETBRANCH(branch), SETSKIP(skip)), SETADR(adr))

RECURSIVE build_recursive(_, _, _, _, _, _, _)
RECURSIVE SubtreesIn(_, _, _, _, _, _, _, _, _, _)
RECURSIVE Internal(_, _, _, _, _, _, _, _)

(* the short-prefix case: the entry p is written to the slots from bitpat  *)
(* up to bitpat + (1 << bits) - 1.  1 << 31 is 2^31 slots, more than any   *)
(* array holds; a shift by 32 or more is the build's choice (ShiftCount).  *)
FanOut(st, b, newprefix, branch, p, adr, bitpat, cap) ==
  LET bits == branch + newprefix - At(b, p).len
      c == ShiftCount(bits)
      slots == IF c = adrsize THEN 0 ELSE Pow2(c)
  IN  IF c = adrsize - 1 \/ adr + bitpat + slots > cap
      THEN Pass(st.w, st.nextfree, "overflow", st.log)
      ELSE StoreRange(st, adr + bitpat, adr + bitpat + slots, p)

(* a loop body that takes the entry at p for an empty pattern also when    *)
(* the range has ended                                                     *)
SubtreeOfNext(st, b, newprefix, branch, first, n, adr, bitpat, p, cap, k) ==
  IF k = 0
  THEN build_recursive(st, b, newprefix + branch, p, 1, adr + bitpat, cap)
  ELSE IF k = 1 /\ At(b, p).len - newprefix < branch
       THEN FanOut(st, b, newprefix, branch, p, adr, bitpat, cap)
       ELSE build_recursive(st, b, newprefix + branch, p, k, adr + bitpat, cap)

(* the body of the for loop over the bit patterns of one internal node,   *)
(* with the k entries that match bitpat                                    *)
Subtree(st, b, newprefix, branch, first, n, adr, bitpat, p, cap, k) ==
  IF k = 0
  THEN IF p = first + n
       THEN build_recursive(st, b, newprefix + branch, p - 1, 1, adr + bitpat, cap)
       ELSE build_recursive(st, b, newprefix + branch, p, 1, adr + bitpat, cap)
  ELSE IF k = 1 /\ At(b, p).len - newprefix < branch
       THEN FanOut(st, b, newprefix, branch, p, adr, bitpat, cap)
       ELSE build_recursive(st, b, newprefix + branch, p, k, adr + bitpat, cap)

(* one iteration of the for loop, on the pass and the index p it has      *)
(* reached, with the k entries that match bitpat; then p += k              *)
Iteration(lp, b, newprefix, branch, first, n, adr, bitpat, cap, k) ==
  [st |-> Subtree(Logged(lp.st,
                         Turn(adr, branch, newprefix, first, n, bitpat, lp.p, k,
                              IF k = 1 /\ At(b, lp.p).len - newprefix < branch
                              THEN branch + newprefix - At(b, lp.p).len ELSE 0,
                              lp.st.nextfree)),
                  b, newprefix, branch, first, n, adr, bitpat, lp.p, cap, k),
   p |-> lp.p + k]

(* the iterations for the bit patterns from..(to - 1), in their order: the *)
(* first half of the range, then the second half on what the first left    *)
SubtreesIn(lp, b, newprefix, branch, first, n, adr, from, to, cap) ==
  IF lp.st.fault # NoFault \/ from >= to THEN lp
  ELSE IF to = from + 1
       THEN Iteration(lp, b, newprefix, branch, first, n, adr, from, cap,
                      Matching(b, newprefix, branch, from, lp.p, 0, first + n))
       ELSE SubtreesIn(SubtreesIn(lp, b, newprefix, branch, first, n, adr,
                                  from, (from + to) \div 2, cap),
                       b, newprefix, branch, first, n, adr, (from + to) \div 2, to, cap)

(* the for loop *)
Subtrees(st, b, newprefix, branch, first, n, adr, bitpat, p, cap) ==
  SubtreesIn([st |-> st, p |-> p], b, newprefix, branch, first, n, adr,
             bitpat, Pow2(branch), cap).st

build_recursive(st, b, prefix, first, n, pos, cap) ==
  IF st.fault # NoFault THEN st
  ELSE IF n = 1 THEN Store(st, pos, first, cap)
  ELSE Internal(st, b, prefix, first, n, pos, cap, compute_branch(b, prefix, first, n))

(* the general case, with the result cb of compute_branch *)
Internal(st, b, prefix, first, n, pos, cap, cb) ==
  IF cb.hang THEN Pass(st.w, st.nextfree, "hang", st.log)
  ELSE IF st.nextfree + Pow2(cb.branch) > cap
       \* every slot of the block is written by the loop over the bit
       \* patterns, so a block that leaves the array ends in a write beyond it
       THEN Pass(st.w, st.nextfree + Pow2(cb.branch), "overflow", st.log)
       ELSE Subtrees(
              Pass(Store(st, pos, Node(cb.branch, cb.newprefix - prefix, st.nextfree), cap).w,
                   st.nextfree + Pow2(cb.branch), NoFault, st.log),
              b, cb.newprefix, cb.branch, first, n, st.nextfree, 0, first, cap)

----------------------------------------------------------------------------
(* lc_trie::build, as a function of the object's arrays and the caller's   *)
(* list: the result, the list as the call leaves it, and the new arrays.   *)

MaxStrings == 524288

NoStats == <<>>

BuildOutcome(ret, strings, t, b, nextfree) ==
  [ret |-> ret, strings |-> strings, trie |-> t, base |-> b, nextfree |-> nextfree]

(* trie.resize(nextfree) after the pass st: the nodes written, over what   *)
(* the array held before (its old elements, then zeros)                    *)
Compiled(t, sorted, nb, st) ==
  IF st.fault # NoFault
  THEN BuildOutcome("fault", sorted, t, nb, st.nextfree)
  ELSE BuildOutcome("true", sorted,
         [i \in 1..st.nextfree |->
            IF (i - 1) \in DOMAIN st.w THEN st.w[i - 1]
            ELSE IF i <= Len(t) THEN t[i] ELSE 0],
         nb, st.nextfree)

(* trie.resize(2 * base.size() + 2000000) and the pass over the new base *)
Compile(t, sorted, nb) ==
  Compiled(t, sorted, nb,
           build_recursive(Pass(<<>>, 1, NoFault, <<>>), nb, 0, 0, Len(nb), 0,
                           2 * Len(nb) + Preallocated))

Deduplicate(t, b, sorted) == Compile(t, sorted, PushDistinct(b, sorted, 1))

(* a build whose capacity check rejects a list of MaxStrings entries too *)
buildRejectingAtCapacity(t, b, strings) ==
  IF ListSize(strings) >= MaxStrings
  THEN BuildOutcome("false", strings, t, b, 0)
  ELSE IF strings = <<>>
       THEN BuildOutcome("fault", strings, t, b, 0)
       ELSE Deduplicate(t, b, Sort(strings))

build(t, b, strings) ==
  IF ListSize(strings) > MaxStrings
  THEN BuildOutcome("false", strings, t, b, 0)
  ELSE IF strings = <<>>
       \* base.push_back(strings[0]) reads the first element of an empty vector
       THEN BuildOutcome("fault", strings, t, b, 0)
       ELSE Deduplicate(t, b, Sort(strings))

----------------------------------------------------------------------------
(* lc_trie::traverse and lc_trie::stats.  The statistics string is kept as *)
(* the tuple of the values it prints; cached_stats holds no element when   *)
(* the string is empty and the tuple otherwise.                            *)

SizeofBase == 8
SizeofNode == 4
SizeofParams == 12

Max(a, b) == IF a > b THEN a ELSE b

Depths(tot, max, fault) == [totdepth |-> tot, maxdepth |-> max, fault |-> fault]

RECURSIVE traverse(_, _, _, _)
RECURSIVE TraverseChildren(_, _, _, _, _)

TraverseChildren(t, r, depth, i, acc) ==
  IF acc.fault \/ ~(i < Pow2(GETBRANCH(r)) /\ i < Len(t)) THEN acc
  ELSE IF GETADR(r) + i >= Len(t) THEN Depths(acc.totdepth, acc.maxdepth, TRUE)
  ELSE TraverseChildren(t, r, depth, i + 1,
                        traverse(t, At(t, GETADR(r) + i), depth + 1, acc))

traverse(t, r, depth, acc) ==
  IF acc.fault THEN acc
  ELSE IF depth > Len(t) THEN Depths(acc.totdepth, acc.maxdepth, TRUE)
  ELSE IF GETBRANCH(r) = 0
       THEN Depths(acc.totdepth + depth, Max(acc.maxdepth, depth), FALSE)
       ELSE TraverseChildren(t, r, depth, 0, acc)

Formatted(t, b, fill, rootbranch, leaves, d) ==
  [N |-> Len(b), basesz |-> Len(b) * SizeofBase, triesz |-> Len(t) * SizeofNode,
   totalsz |-> Len(b) * SizeofBase + Len(t) * SizeofNode + SizeofParams,
   fill |-> fill,
   rootbranch |-> IF rootbranch = 0 THEN <<GETBRANCH(At(t, 0)), "">>
                  ELSE <<rootbranch, "F">>,
   leaves |-> leaves, internal |-> Len(t) - leaves,
   dmax |-> d.maxdepth, davg |-> <<d.totdepth, leaves>>,
   fault |-> d.fault]

StatsString(t, b, fill, rootbranch) ==
  Formatted(t, b, fill, rootbranch,
            Cardinality({i \in 1..Len(t) : GETBRANCH(t[i]) = 0}),
            traverse(t, At(t, 0), 0, Depths(0, 0, FALSE)))

EmptyMessage == [text |-> "Empty or not yet compiled"]

Computed(o) == [out |-> o, cached |-> <<o>>]

(* a stats that hands out the cached string once and then drops it *)
statsDroppingCache(t, b, fill, rootbranch, cached) ==
  IF cached # NoStats
  THEN [out |-> cached[1], cached |-> NoStats]
  ELSE IF Len(t) = 0
       THEN [out |-> EmptyMessage, cached |-> cached]
       ELSE Computed(StatsString(t, b, fill, rootbranch))

(* stats(out): what out receives and what cached_stats becomes *)
stats(t, b, fill, rootbranch, cached) ==
  IF cached # NoStats
  THEN [out |-> cached[1], cached |-> cached]
  ELSE IF Len(t) = 0
       THEN [out |-> EmptyMessage, cached |-> cached]
       ELSE Computed(StatsString(t, b, fill, rootbranch))

----------------------------------------------------------------------------
(* lc_trie::serialize, save and load.  The archive is the sequence of the  *)
(* items serialize names, in its order; a stream that ends early holds a   *)
(* prefix of them.                                                         *)

NoFile == [exists |-> FALSE, items |-> <<>>]

serialize(t, b, fill, rootbranch, cached) == <<t, b, fill, rootbranch, cached>>

Items == 5

(* a load that reads the arrays and the cached statistics but keeps the    *)
(* parameters the object was constructed with                              *)
DeserializeKeepingParameters(items, t, b, fill, rootbranch, cached) ==
  [ret |-> IF Len(items) = Items THEN "true" ELSE "throw",
   trie |-> IF Len(items) >= 1 THEN items[1] ELSE t,
   base |-> IF Len(items) >= 2 THEN items[2] ELSE b,
   fill |-> fill,
   rootbranch |-> rootbranch,
   cached |-> IF Len(items) >= 5 THEN items[5] ELSE cached]

(* a load that reads the four other items and clears the cached statistics *)
DeserializeClearingCache(items, t, b, fill, rootbranch, cached) ==
  [ret |-> IF Len(items) = Items THEN "true" ELSE "throw",
   trie |-> IF Len(items) >= 1 THEN items[1] ELSE t,
   base |-> IF Len(items) >= 2 THEN items[2] ELSE b,
   fill |-> IF Len(items) >= 3 THEN items[3] ELSE fill,
   rootbranch |-> IF Len(items) >= 4 THEN items[4] ELSE rootbranch,
   cached |-> IF Len(items) >= 5 THEN NoStats ELSE cached]

(* ia >> *this on a stream of k items: each item read replaces its field;  *)
(* the first missing item throws out of load                               *)
Deserialize(items, t, b, fill, rootbranch, cached) ==
  [ret |-> IF Len(items) = Items THEN "true" ELSE "throw",
   trie |-> IF Len(items) >= 1 THEN items[1] ELSE t,
   base |-> IF Len(items) >= 2 THEN items[2] ELSE b,
   fill |-> IF Len(items) >= 3 THEN items[3] ELSE fill,
   rootbranch |-> IF Len(items) >= 4 THEN items[4] ELSE rootbranch,
   cached |-> IF Len(items) >= 5 THEN items[5] ELSE cached]

----------------------------------------------------------------------------
(* The inputs the model draws from *)

Entry(b0, b1, b2, b3, len) == [str |-> strtoip(b0, b1, b2, b3), len |-> len]

Catalogue ==
  << Entry(128, 0, 0, 0, 3),   Entry(0, 0, 0, 0, 1),     Entry(160, 0, 0, 0, 3),
     Entry(10, 1, 0, 0, 16),   Entry(10, 0, 0, 0, 8),    Entry(192, 168, 1, 1, 32),
     Entry(0, 0, 0, 0, 0),     Entry(192, 168, 1, 0, 32), Entry(10, 0, 0, 0, 16),
     Entry(11, 0, 0, 0, 8),    Entry(64, 0, 0, 0, 2),    Entry(200, 0, 0, 0, 5),
     Entry(192, 168, 1, 2, 32) >>

Probes ==
  { strtoip(10, 1, 2, 3),    strtoip(11, 0, 0, 0),    strtoip(10, 2, 0, 0),
    strtoip(10, 3, 0, 0),    strtoip(10, 0, 0, 0),    strtoip(10, 1, 0, 0),
    strtoip(0, 0, 0, 0),     strtoip(64, 0, 0, 0),    strtoip(127, 255, 255, 255),
    strtoip(128, 0, 0, 0),   strtoip(144, 0, 0, 1),   strtoip(160, 0, 0, 0),
    strtoip(176, 0, 0, 0),   strtoip(192, 168, 1, 1), strtoip(192, 168, 1, 0),
    strtoip(192, 168, 1, 2), strtoip(200, 0, 0, 0),   strtoip(255, 255, 255, 255) }

(* the addresses the life-cycle specification searches for *)
Queries == {strtoip(64, 0, 0, 0), strtoip(200, 0, 0, 0)}

FillFactors == {<<1, 2>>, <<1, 4>>}

RootBranchings == {0, 2, 3, 21}

ShiftModes == {"mask", "zero"}

(* where the life-cycle specification lets a stream break off: before the  *)
(* first item, after the two arrays, and before the cached statistics      *)
Truncations == {0, 2, Items - 1}

(* the constructor arguments of the life-cycle specification *)
Arguments == {<<<<1, 2>>, 0>>, <<<<1, 4>>, 2>>}

(* bound of the life-cycle specification: the length of the base vector up *)
(* to which build is called again                                          *)
MaxBase == 2

(* bound of the compilation specification: the entries of an input list *)
MaxEntries == 3

Singles(strings) == [i \in 1..Len(strings) |-> [e |-> strings[i], n |-> 1]]

(* three prefixes none of which lies inside another, given unsorted *)
Sample == Singles(<<Catalogue[1], Catalogue[2], Catalogue[3]>>)

(* lists of exactly MaxStrings entries and of MaxStrings + 1, all but the  *)
(* last entry being copies of one prefix                                   *)
Long == <<[e |-> Catalogue[2], n |-> MaxStrings - 1], [e |-> Catalogue[1], n |-> 1]>>
TooLong == <<[e |-> Catalogue[2], n |-> MaxStrings], [e |-> Catalogue[1], n |-> 1]>>

(* the lists the life-cycle specification compiles: the empty list, one    *)
(* prefix, the sample and the two long lists                               *)
Inputs == {<<>>, Singles(<<Catalogue[12]>>), Sample, Long, TooLong}

(* the lists of the compilation specification: the entries of a set of at  *)
(* most MaxEntries catalogue entries, in catalogue order                   *)
RECURSIVE InCatalogueOrder(_, _)
InCatalogueOrder(S, i) ==
  IF i > Len(Catalogue) THEN <<>>
  ELSE (IF i \in S THEN <<Catalogue[i]>> ELSE <<>>) \o InCatalogueOrder(S, i + 1)

BuildInputs ==
  {Singles(InCatalogueOrder(S, 1)) :
     S \in {T \in SUBSET (1..Len(Catalogue)) : Cardinality(T) \in 1..MaxEntries}}

----------------------------------------------------------------------------
(* The threads of the query phase.  Each thread is idle, inside search     *)
(* (descending), inside stats, or back from its call with the result; the  *)
(* automatic variables pos, branch and adr of a search live in the frame   *)
(* of the thread that called it.                                           *)

MaxThreads == 2

Threads == 1..MaxThreads

(* a search whose automatic variables are one static set shared by all *)
SharedFrame(th) == 1

(* the stack frame the call of thread th keeps its automatic variables in *)
Frame(th) == th

Idle == [pc |-> "idle", op |-> "", ip |-> <<>>, ret |-> "", out |-> <<>>]

NoFrame == [pos |-> 0, branch |-> 0, adr |-> 0]

NoCalls == [thread |-> [th \in Threads |-> Idle], frame |-> [th \in Threads |-> NoFrame]]

Returned(c, ret, out) == [c EXCEPT !.pc = "returned", !.ret = ret, !.out = out]

(* node = ...; pos, branch and adr as the code sets them from a node *)
FrameAt(pos, node) == [pos |-> pos, branch |-> GETBRANCH(node), adr |-> GETADR(node)]

----------------------------------------------------------------------------
(* The state machine *)

Call(op, arg, ret, out) == [op |-> op, arg |-> arg, ret |-> ret, out |-> out]

Running == last.ret \notin {"fault", "throw"}

(* lc_trie(fill_factor, root_branching_factor) *)
Constructed(fill_factor, root_branching_factor) ==
  /\ trie = <<>>
  /\ base = <<>>
  /\ comp_fill_factor = fill_factor
  /\ comp_root_branching_factor = root_branching_factor
  /\ cached_stats = NoStats
  /\ last = Call("new", <<>>, "void", <<>>)

Init ==
  /\ \E a \in Arguments : Constructed(a[1], a[2])
  /\ file = NoFile
  /\ shiftMode \in ShiftModes
  /\ calls = NoCalls
  /\ NoUtilities

(* the trie object is destroyed and another one constructed *)
New(fill_factor, root_branching_factor) ==
  /\ Running
  /\ last.op # "new"
  /\ trie' = <<>>
  /\ base' = <<>>
  /\ comp_fill_factor' = fill_factor
  /\ comp_root_branching_factor' = root_branching_factor
  /\ cached_stats' = NoStats
  /\ last' = Call("new", <<>>, "void", <<>>)
  /\ UNCHANGED <<file, shiftMode>>

Built(strings, r) ==
  /\ last' = Call("build", strings, r.ret, [strings |-> r.strings, nextfree |-> r.nextfree])
  /\ trie' = r.trie
  /\ base' = r.base
  /\ cached_stats' = IF r.ret = "true" THEN NoStats ELSE cached_stats

Build(strings) ==
  /\ Running
  /\ Len(base) < MaxBase
  /\ Built(strings, build(trie, base, strings))
  /\ UNCHANGED <<comp_fill_factor, comp_root_branching_factor, file, shiftMode>>

Searched(ip, r) ==
  last' = Call("search", ip,
               IF r.fault THEN "fault" ELSE IF r.found THEN "true" ELSE "false", r)

Search(ip) ==
  /\ Running
  /\ Searched(ip, search(trie, base, ip))
  /\ UNCHANGED <<trie, base, comp_fill_factor, comp_root_branching_factor,
                 cached_stats, file, shiftMode>>

StatsDone(r) ==
  /\ cached_stats' = r.cached
  /\ last' = Call("stats", <<>>, "void", r.out)

Stats ==
  /\ Running
  /\ StatsDone(stats(trie, base, comp_fill_factor, comp_root_branching_factor, cached_stats))
  /\ UNCHANGED <<trie, base, comp_fill_factor, comp_root_branching_factor, file, shiftMode>>

(* save: the file cannot be opened; or the whole archive is written; or    *)
(* the stream ends after k items (the device fails when the compressed     *)
(* stream is flushed, after the return value was read from the file        *)
(* stream)                                                                 *)
SaveOpenFails ==
  /\ Running
  /\ last' = Call("save", <<>>, "false", <<>>)
  /\ UNCHANGED <<trie, base, comp_fill_factor, comp_root_branching_factor,
                 cached_stats, file, shiftMode>>

Save ==
  /\ Running
  /\ file' = [exists |-> TRUE,
              items |-> serialize(trie, base, comp_fill_factor,
                                  comp_root_branching_factor, cached_stats)]
  /\ last' = Call("save", <<>>, "true", <<>>)
  /\ UNCHANGED <<trie, base, comp_fill_factor, comp_root_branching_factor,
                 cached_stats, shiftMode>>

SaveShort(k) ==
  /\ Running
  /\ file' = [exists |-> TRUE,
              items |-> SubSeq(serialize(trie, base, comp_fill_factor,
                                         comp_root_branching_factor, cached_stats), 1, k)]
  /\ last' = Call("save", k, "true", <<>>)
  /\ UNCHANGED <<trie, base, comp_fill_factor, comp_root_branching_factor,
                 cached_stats, shiftMode>>

LoadOpenFails ==
  /\ Running
  /\ ~file.exists
  /\ last' = Call("load", <<>>, "false", <<>>)
  /\ UNCHANGED <<trie, base, comp_fill_factor, comp_root_branching_factor,
                 cached_stats, file, shiftMode>>

Loaded(r) ==
  /\ trie' = r.trie
  /\ base' = r.base
  /\ comp_fill_factor' = r.fill
  /\ comp_root_branching_factor' = r.rootbranch
  /\ cached_stats' = r.cached
  /\ last' = Call("load", <<>>, r.ret, <<>>)

Load ==
  /\ Running
  /\ file.exists
  /\ Loaded(Deserialize(file.items, trie, base, comp_fill_factor,
                        comp_root_branching_factor, cached_stats))
  /\ UNCHANGED <<file, shiftMode>>

Next ==
  /\ \/ \E a \in Arguments : New(a[1], a[2])
     \/ \E strings \in Inputs : Build(strings)
     \/ \E ip \in Queries : Search(ip)
     \/ Stats
     \/ SaveOpenFails
     \/ Save
     \/ \E k \in Truncations : SaveShort(k)
     \/ LoadOpenFails
     \/ Load
  /\ UNCHANGED calls
  /\ UNCHANGED utilities

Spec == Init /\ [][Next]_vars

(* compilation alone: a fresh trie compiles one list *)
BuildOnce(strings) ==
  /\ last.op = "new"
  /\ Build(strings)

NextBuild ==
  /\ \E strings \in BuildInputs : BuildOnce(strings)
  /\ UNCHANGED calls
  /\ UNCHANGED utilities

InitBuild ==
  /\ \E f \in FillFactors, r \in RootBranchings : Constructed(f, r)
  /\ file = NoFile
  /\ shiftMode \in ShiftModes
  /\ calls = NoCalls
  /\ NoUtilities

SpecBuild == InitBuild /\ [][NextBuild]_vars

(* compilation of one set in every order: a fresh trie compiles a list of  *)
(* up to MaxOrder entries drawn, with repetition, from the sample          *)
MaxOrder == 3

OrderInputs ==
  {Singles(l) : l \in UNION {[1..k -> {Catalogue[1], Catalogue[2], Catalogue[3]}] :
                               k \in 1..MaxOrder}}

NextOrder ==
  /\ \E strings \in OrderInputs : BuildOnce(strings)
  /\ UNCHANGED calls
  /\ UNCHANGED utilities

SpecOrder == InitBuild /\ [][NextOrder]_vars

(* compilation with a root branching factor given by the user: none, 2    *)
(* and 9, on lists of three of the first six entries of the catalogue      *)
BranchOverrides == {0, 2, 9}

BranchInputs ==
  {Singles(InCatalogueOrder(S, 1)) : S \in {T \in SUBSET (1..6) : Cardinality(T) = 3}}

InitBranch ==
  /\ \E f \in FillFactors, r \in BranchOverrides : Constructed(f, r)
  /\ file = NoFile
  /\ shiftMode \in ShiftModes
  /\ calls = NoCalls
  /\ NoUtilities

NextBranch ==
  /\ \E strings \in BranchInputs : BuildOnce(strings)
  /\ UNCHANGED calls
  /\ UNCHANGED utilities

SpecBranch == InitBranch /\ [][NextBranch]_vars

(* compilation of lists in which prefixes lie inside one another and an    *)
(* entry may have bits set beyond its prefix length (the address is taken  *)
(* as it is written: 192.0.0.0/1 is 128.0.0.0/1 with such a bit)           *)

LayoutCatalogue ==
  << Entry(0, 0, 0, 0, 32),  Entry(0, 0, 0, 1, 32),  Entry(32, 0, 0, 0, 32),
     Entry(192, 0, 0, 0, 1), Entry(0, 0, 0, 0, 0),   Entry(128, 0, 0, 0, 3) >>

(* bound of the layout specification: the entries of an input list *)
MaxLayout == 4

RECURSIVE InLayoutOrder(_, _)
InLayoutOrder(S, i) ==
  IF i > Len(LayoutCatalogue) THEN <<>>
  ELSE (IF i \in S THEN <<LayoutCatalogue[i]>> ELSE <<>>) \o InLayoutOrder(S, i + 1)

LayoutInputs ==
  {Singles(InLayoutOrder(S, 1)) :
     S \in {T \in SUBSET (1..Len(LayoutCatalogue)) : Cardinality(T) \in 1..MaxLayout}}

InitLayout ==
  /\ \E f \in FillFactors : Constructed(f, 0)
  /\ file = NoFile
  /\ shiftMode \in ShiftModes
  /\ calls = NoCalls
  /\ NoUtilities

NextLayout ==
  /\ \E strings \in LayoutInputs : BuildOnce(strings)
  /\ UNCHANGED calls
  /\ UNCHANGED utilities

SpecLayout == InitLayout /\ [][NextLayout]_vars

(* the two phases: a fresh trie compiles one list and computes its         *)
(* statistics once, alone; from then on the threads call search and stats  *)
(* in any interleaving, one step of one call at a time                     *)
QueryInputs ==
  {Sample, Singles(<<Catalogue[12]>>), Singles(<<Catalogue[4], Catalogue[10]>>)}

(* the addresses the threads ask for: two the sample holds, one it lacks *)
ThreadQueries == {strtoip(128, 0, 0, 0), strtoip(160, 0, 0, 0), strtoip(64, 0, 0, 0)}

FirstStats ==
  /\ last.op = "build" /\ last.ret = "true"
  /\ Stats

QueryPhase == Running /\ last.op = "stats"

Free(th) == calls.thread[th].pc \in {"idle", "returned"}

(* search up to the loop: the test for an empty trie and the read of the root *)
SearchEnter(th, ip) ==
  /\ QueryPhase /\ Free(th)
  /\ calls' =
       IF Len(trie) = 0
       THEN [calls EXCEPT !.thread[th] = [pc |-> "returned", op |-> "search",
                                          ip |-> ip, ret |-> "false", out |-> <<>>]]
       ELSE [thread |-> [calls.thread EXCEPT ![th] =
                           [pc |-> "descend", op |-> "search", ip |-> ip, ret |-> "", out |-> <<>>]],
             frame |-> [calls.frame EXCEPT ![Frame(th)] =
                           FrameAt(GETSKIP(At(trie, 0)), At(trie, 0))]]
  /\ UNCHANGED <<trie, base, comp_fill_factor, comp_root_branching_factor,
                 cached_stats, file, shiftMode, last>>

(* one iteration of the loop of search, on the frame f *)
Iterated(th, f, index) ==
  IF index >= Len(trie)
  THEN [calls EXCEPT !.thread[th] = Returned(@, "fault", <<>>)]
  ELSE [calls EXCEPT !.frame[Frame(th)] =
          FrameAt(f.pos + f.branch + GETSKIP(At(trie, index)), At(trie, index))]

SearchStep(th) ==
  /\ calls.thread[th].pc = "descend"
  /\ calls.frame[Frame(th)].branch # 0
  /\ calls' = Iterated(th, calls.frame[Frame(th)],
                       calls.frame[Frame(th)].adr
                         + ExtractValue(calls.frame[Frame(th)].pos,
                                        calls.frame[Frame(th)].branch,
                                        calls.thread[th].ip))
  /\ UNCHANGED <<trie, base, comp_fill_factor, comp_root_branching_factor,
                 cached_stats, file, shiftMode, last>>

(* the leaf check and the return of search *)
SearchLeaf(th) ==
  /\ calls.thread[th].pc = "descend"
  /\ calls.frame[Frame(th)].branch = 0
  /\ calls' = [calls EXCEPT !.thread[th] =
                 Returned(@, IF calls.frame[Frame(th)].adr >= Len(base) THEN "fault"
                             ELSE IF Hit(base, calls.frame[Frame(th)].adr, @.ip)
                                  THEN "true" ELSE "false", <<>>)]
  /\ UNCHANGED <<trie, base, comp_fill_factor, comp_root_branching_factor,
                 cached_stats, file, shiftMode, last>>

StatsEnter(th) ==
  /\ QueryPhase /\ Free(th)
  /\ calls' = [calls EXCEPT !.thread[th] =
                 [pc |-> "stats", op |-> "stats", ip |-> <<>>, ret |-> "", out |-> <<>>]]
  /\ UNCHANGED <<trie, base, comp_fill_factor, comp_root_branching_factor,
                 cached_stats, file, shiftMode, last>>

StatsLeft(th, r) ==
  /\ cached_stats' = r.cached
  /\ calls' = [calls EXCEPT !.thread[th] = Returned(@, "void", <<r.out>>)]

StatsLeave(th) ==
  /\ calls.thread[th].pc = "stats"
  /\ StatsLeft(th, stats(trie, base, comp_fill_factor, comp_root_branching_factor,
                         cached_stats))
  /\ UNCHANGED <<trie, base, comp_fill_factor, comp_root_branching_factor,
                 file, shiftMode, last>>

NextQuery ==
  /\ \/ (\E strings \in QueryInputs : BuildOnce(strings)) /\ UNCHANGED calls
     \/ FirstStats /\ UNCHANGED calls
     \/ \E th \in Threads :
           \/ \E ip \in ThreadQueries : SearchEnter(th, ip)
           \/ SearchStep(th)
           \/ SearchLeaf(th)
           \/ StatsEnter(th)
           \/ StatsLeave(th)
  /\ UNCHANGED utilities

SpecQuery == Init /\ [][NextQuery]_vars

----------------------------------------------------------------------------
(* compile_lc_trie: a text file of lines "address" or "address/length" is  *)
(* read into an input list and built.  A line is kept as the decimal       *)
(* fields of its address text, whether it has a slash, and the characters  *)
(* after the slash.                                                        *)

(* inet_pton(AF_INET, str, buf): 1 and the four bytes for four fields of   *)
(* 0..255; 0, with buf not written, for any other text; -1 only for an     *)
(* address family it does not know                                         *)
inet_pton(fields, buf) ==
  IF Len(fields) = 4 /\ \A i \in 1..4 : fields[i] \in 0..255
  THEN [ret |-> 1, buf |-> fields]
  ELSE [ret |-> 0, buf |-> buf]

(* strtoip<ipv4>(str, out) with r the outcome of its call of inet_pton;    *)
(* buf is an automatic array that is not initialised                       *)
Converted(r) ==
  IF r.ret < 0
  THEN [ok |-> FALSE, out |-> ZeroIP, buf |-> r.buf]
  ELSE [ok |-> TRUE, out |-> strtoip(r.buf[1], r.buf[2], r.buf[3], r.buf[4]), buf |-> r.buf]

strtoipText(fields, buf) == Converted(inet_pton(fields, buf))

DigitOf(c) ==
  CASE c = "0" -> 0 [] c = "1" -> 1 [] c = "2" -> 2 [] c = "3" -> 3 [] c = "4" -> 4
    [] c = "5" -> 5 [] c = "6" -> 6 [] c = "7" -> 7 [] c = "8" -> 8 [] c = "9" -> 9
    [] OTHER -> -1

(* atoi: the value of the leading decimal digits, 0 when there are none *)
RECURSIVE AtoiFrom(_, _, _)
AtoiFrom(chars, i, value) ==
  IF i > Len(chars) \/ DigitOf(chars[i]) < 0 THEN value
  ELSE AtoiFrom(chars, i + 1, 10 * value + DigitOf(chars[i]))

atoi(chars) == AtoiFrom(chars, 1, 0)

Line(fields, slash, chars) == [addr |-> fields, slash |-> slash, len |-> chars]

(* the loop over the lines, from line i on, with the entries read so far   *)
(* and what the array buf of strtoip holds                                 *)
RECURSIVE ReadLines(_, _, _, _)
ReadFrom(lines, i, vector, c) ==
  IF ~c.ok
  THEN [returned |-> TRUE, vector |-> vector]
  ELSE ReadLines(lines, i + 1,
                 Append(vector, [str |-> c.out,
                                 len |-> IF lines[i].slash THEN atoi(lines[i].len)
                                         ELSE adrsize]),
                 c.buf)

ReadLines(lines, i, vector, buf) ==
  IF i > Len(lines) THEN [returned |-> FALSE, vector |-> vector]
  ELSE ReadFrom(lines, i, vector, strtoipText(lines[i].addr, buf))

(* the end of compile_lc_trie, with r what the loop over the lines left *)
compile(r, t, b) ==
  IF r.returned
  THEN [called |-> FALSE, outcome |-> BuildOutcome("false", <<>>, t, b, 0)]
  ELSE [called |-> TRUE, outcome |-> build(t, b, Singles(r.vector))]

(* the files of the model: up to MaxLines lines, each with one of four     *)
(* address texts (10.1.0.0, 11.0.0.0, 10.1.0 and 10.1.0.256) and no        *)
(* length, "/8", "/16" or "/x"                                             *)
MaxLines == 2

AddressTexts == {<<10, 1, 0, 0>>, <<11, 0, 0, 0>>, <<10, 1, 0>>, <<10, 1, 0, 256>>}

Lines ==
  {Line(a, FALSE, <<>>) : a \in AddressTexts} \cup
  {Line(a, TRUE, c) : a \in AddressTexts, c \in {<<"8">>, <<"1", "6">>, <<"x">>}}

Files == UNION {[1..k -> Lines] : k \in 0..MaxLines}

(* what the stack may hold where buf is placed, when strtoip is first called *)
Indeterminate == {<<0, 0, 0, 0>>, <<200, 0, 0, 0>>}

CompileOpenFails ==
  /\ last.op = "new"
  /\ last' = Call("compile", <<>>, "false", [called |-> FALSE, strings |-> <<>>])
  /\ UNCHANGED <<trie, base, comp_fill_factor, comp_root_branching_factor,
                 cached_stats, file, shiftMode, calls>>

CompileDone(lines, r) ==
  /\ last' = Call("compile", lines, r.outcome.ret,
                  [called |-> r.called, strings |-> r.outcome.strings])
  /\ trie' = r.outcome.trie
  /\ base' = r.outcome.base
  /\ cached_stats' = IF r.outcome.ret = "true" THEN NoStats ELSE cached_stats

CompileFile(lines, buf) ==
  /\ last.op = "new"
  /\ CompileDone(lines, compile(ReadLines(lines, 1, <<>>, buf), trie, base))
  /\ UNCHANGED <<comp_fill_factor, comp_root_branching_factor, file, shiftMode, calls>>

NextCompile ==
  /\ \/ CompileOpenFails
     \/ \E lines \in Files, buf \in Indeterminate : CompileFile(lines, buf)
  /\ UNCHANGED utilities

SpecCompile == Init /\ [][NextCompile]_vars

----------------------------------------------------------------------------
(* struct ipv6 and its EXTRACT and REMOVE.  A uint64_t is a vector of 64    *)
(* bits, most significant first; an ipv6 is the record of its halves hi     *)
(* and lo.  A shift of a word by 64 or more is undefined: the processor     *)
(* either takes the count modulo 64 or shifts every bit out, as shiftMode   *)
(* says.                                                                    *)

wordsize == 64

Word == 1..wordsize

ZeroWord == [i \in Word |-> 0]

WordCount(k) ==
  IF k < wordsize THEN k
  ELSE IF shiftMode = "mask" THEN k % wordsize ELSE wordsize

(* w << k and w >> k on a uint64_t *)
ShiftLeft(w, k) == [i \in Word |-> IF i + WordCount(k) <= wordsize THEN w[i + WordCount(k)] ELSE 0]

ShiftRight(w, k) == [i \in Word |-> IF i - WordCount(k) >= 1 THEN w[i - WordCount(k)] ELSE 0]

WordOr(a, b) == [i \in Word |-> IF a[i] = 1 \/ b[i] = 1 THEN 1 ELSE 0]

Wide(hi, lo) == [hi |-> hi, lo |-> lo]

(* the second half of EXTRACT: str shifted right by n = 128 - n bits *)
ShiftedRight(n, str) ==
  IF n > 0 /\ n < 64
  THEN Wide(ShiftRight(str.hi, n),
            WordOr(ShiftRight(str.lo, n), ShiftLeft(str.hi, 64 - n)))
  ELSE IF n > 64 THEN Wide(ZeroWord, ShiftRight(str.hi, n - 64))
  ELSE IF n = 64 THEN Wide(ZeroWord, str.hi)
  ELSE Wide(str.hi, ShiftRight(str.lo, n))

(* the first half of EXTRACT: str shifted left by p bits *)
ShiftedLeft(p, str) ==
  IF p > 0 /\ p <= 64
  THEN Wide(WordOr(ShiftLeft(str.hi, p), ShiftRight(str.lo, 64 - p)), ShiftLeft(str.lo, p))
  ELSE IF p > 64 THEN Wide(ShiftLeft(str.lo, p - 64), ZeroWord)
  ELSE Wide(ShiftLeft(str.hi, p), str.lo)

(* EXTRACT(p, n, str) on ipv6 *)
EXTRACT6(p, n, str) == ShiftedRight(128 - n, ShiftedLeft(p, str))

(* REMOVE(p, str) on ipv6 *)
REMOVE6(p, str) ==
  IF p > 0
  THEN IF p <= 64
       THEN Wide(ShiftRight(ShiftLeft(str.hi, p), p), str.lo)
       ELSE Wide(ZeroWord, ShiftRight(ShiftLeft(str.lo, p - 64), p - 64))
  ELSE str

(* the positions and lengths the calls of the model are made with: the     *)
(* ends, the boundary between the halves and its neighbours                *)
Positions == {0, 1, 63, 64, 65, 127, 128}

Lengths == {1, 63, 64, 65, 127, 128}

(* all ones; 1010... over 0110...; and ::1 *)
WideAddresses ==
  { Wide([i \in Word |-> 1], [i \in Word |-> 1]),
    Wide([i \in Word |-> i % 2], [i \in Word |-> IF i % 4 \in {2, 3} THEN 1 ELSE 0]),
    Wide(ZeroWord, [i \in Word |-> IF i = wordsize THEN 1 ELSE 0]) }

Extract6(p, n, str) ==
  /\ last.op = "new"
  /\ p + n <= 2 * wordsize
  /\ last' = Call("extract", [p |-> p, n |-> n, str |-> str], "void", EXTRACT6(p, n, str))
  /\ UNCHANGED <<trie, base, comp_fill_factor, comp_root_branching_factor,
                 cached_stats, file, shiftMode, calls>>

Remove6(p, str) ==
  /\ last.op = "new"
  /\ last' = Call("remove", [p |-> p, n |-> 0, str |-> str], "void", REMOVE6(p, str))
  /\ UNCHANGED <<trie, base, comp_fill_factor, comp_root_branching_factor,
                 cached_stats, file, shiftMode, calls>>

NextWide ==
  /\ \/ \E p \in Positions, n \in Lengths, str \in WideAddresses : Extract6(p, n, str)
     \/ \E p \in Positions, str \in WideAddresses : Remove6(p, str)
  /\ UNCHANGED utilities

SpecWide == Init /\ [][NextWide]_vars

----------------------------------------------------------------------------
(* resource_pool<Resource, Policy> (krb/resource_pool.hpp) *)

(* A resource is named by the address of its list node, a positive number; *)
(* NULL is 0.  std::list<Resource> pool and std::list<Resource *> open are *)
(* sequences of addresses, front first.                                    *)
NULL == 0

Min(a, b) == IF a < b THEN a ELSE b

Range(s) == {s[i] : i \in 1..Len(s)}

Policies ==
  {"basic_pool_policy", "never_shrink_policy", "fixed_growth_policy", "fixed_size_policy"}

(* fixed_growth_policy<GrowthSize = 1> *)
GrowthSize == 1

(* Policy::grow(cur_sz) *)
grow(policy, cur_sz) ==
  CASE policy = "fixed_growth_policy" -> GrowthSize
    [] policy = "fixed_size_policy" -> 0
    [] OTHER -> cur_sz \div 2

(* Policy::shrink(cur_sz, open_sz); 0.66 * cur_sz and 0.33 * cur_sz are    *)
(* doubles, which agree with the fractions for the sizes of the model      *)
shrink(policy, cur_sz, open_sz) ==
  IF policy \in {"never_shrink_policy", "fixed_size_policy"} THEN 0
  ELSE IF 100 * open_sz <= 66 * cur_sz THEN 0
       ELSE open_sz - (33 * cur_sz) \div 100

(* resource_pool(low_watermark, high_watermark) *)
resource_pool(low_watermark, high_watermark, policy) ==
  [wm_low |-> low_watermark, wm_high |-> high_watermark, policy |-> policy,
   pool |-> <<>>, open |-> <<>>]

allocated(P) == Len(P.pool)

free(P) == Len(P.open)

used(P) == allocated(P) - free(P)

(* the nodes of resource_list add(grow): n addresses no live node has *)
RECURSIVE NewNodes(_, _)
NewNodes(live, n) ==
  IF n = 0 THEN <<>>
  ELSE LET r == CHOOSE a \in 1..(Cardinality(live) + 1) :
                  a \notin live /\ \A b \in 1..(a - 1) : b \in live
       IN <<r>> \o NewNodes(live \cup {r}, n - 1)

(* fetch: there is nothing to hand out and nothing may be added *)
Exhausted(P) == P.open = <<>> /\ Len(P.pool) >= P.wm_high

(* fetch: the number of resources to add *)
Growth(P) ==
  IF P.pool = <<>> THEN P.wm_low
  ELSE Max(Min(grow(P.policy, Len(P.pool)), P.wm_high - Len(P.pool)), 1)

(* fetch: the pool after if(open.empty()) { ... } *)
GrownBy(P, add) == [P EXCEPT !.open = @ \o add, !.pool = @ \o add]

Replenished(P) ==
  IF P.open = <<>> THEN GrownBy(P, NewNodes(Range(P.pool), Growth(P))) ELSE P

(* fetch: open.pop_back() *)
Popped(P) == [P EXCEPT !.open = SubSeq(@, 1, Len(@) - 1)]

(* fetch, as one call: the pool it leaves and the pointer it returns.      *)
(* open.back() and open.pop_back() on an empty list are undefined: the     *)
(* call need not return at all ("fault"), and a pointer it returns is none *)
(* of the pool's (the wild pointer is written -1).                         *)
Wild == 0 - 1

FetchOutcomes(P) ==
  IF Exhausted(P) THEN {[P |-> P, r |-> NULL, ret |-> "returned"]}
  ELSE IF Replenished(P).open = <<>>
       THEN {[P |-> P, r |-> NULL, ret |-> "fault"]}
            \cup {[P |-> P, r |-> w, ret |-> "undefined"] : w \in {NULL, Wild}}
       ELSE {[P |-> Popped(Replenished(P)),
              r |-> Replenished(P).open[Len(Replenished(P).open)],
              ret |-> "returned"]}

(* release: the number of resources to examine for removal *)
RemoveUnclamped(P, remove) == remove

RemoveClamped(P, remove) ==
  IF remove <= Len(P.pool) /\ Len(P.pool) - remove < P.wm_low
  THEN Len(P.pool) - P.wm_low
  ELSE remove

RemoveAt(s, i) == SubSeq(s, 1, i - 1) \o SubSeq(s, i + 1, Len(s))

(* open.erase(oi) for the first oi with *oi == r *)
EraseFirst(s, r) ==
  RemoveAt(s, CHOOSE i \in 1..Len(s) : s[i] = r /\ \A j \in 1..(i - 1) : s[j] # r)

(* release: the loop over the pool from its ri-th resource on *)
RECURSIVE Clobber(_, _, _)
Clobber(P, ri, remove) ==
  IF ri > Len(P.pool) \/ remove = 0 THEN P
  ELSE IF P.pool[ri] \in Range(P.open)
       THEN Clobber([P EXCEPT !.open = EraseFirst(@, P.pool[ri]),
                              !.pool = RemoveAt(@, ri)], ri, remove - 1)
       ELSE Clobber(P, ri + 1, remove - 1)

Shrunk(P) ==
  IF Len(P.pool) > P.wm_low /\ shrink(P.policy, Len(P.pool), Len(P.open)) # 0
  THEN Clobber(P, 1, RemoveClamped(P, shrink(P.policy, Len(P.pool), Len(P.open))))
  ELSE P

(* release(r), as one call *)
release(P, r) == Shrunk([P EXCEPT !.open = Append(@, r)])

(* locker L(mutex): the mutex is 0 when no thread holds it *)
NoThread == 0

LockIgnored(mutex) == TRUE

Lockable(mutex) == mutex = NoThread

(* The pool and its callers.  Each caller keeps the pointers fetch gave it *)
(* (held) and gives back one of them with each release, as the header asks *)
(* ("it assumes the resource was taken from the pool"); r is the pointer   *)
(* the fetch in progress is about to return and ret tells of a fetch that  *)
(* ended in undefined behaviour.                                           *)
MaxHigh == 3

Watermarks == {w \in (0..MaxHigh) \X (0..MaxHigh) : w[1] <= w[2]}

Caller == [pc |-> "idle", r |-> NULL, held |-> {}, ret |-> "none"]

PoolOf(P) ==
  [P |-> P, mutex |-> NoThread, fetched |-> FALSE, caller |-> [t \in Threads |-> Caller]]

NoTrie ==
  /\ Constructed(<<1, 2>>, 0)
  /\ file = NoFile
  /\ shiftMode = "mask"
  /\ calls = NoCalls

InitPool ==
  /\ NoTrie
  /\ \E w \in Watermarks, policy \in Policies :
        rpool = PoolOf(resource_pool(w[1], w[2], policy))
  /\ tpool = NoObject
  /\ lru = NoObject
  /\ sync = NoObject

PoolRunning == \A t \in Threads : rpool.caller[t].ret \notin {"fault", "undefined"}

(* fetch, lines 184 to 211: the lock is taken, the pool replenished and r  *)
(* read from the back of open                                              *)
FetchTake(t) ==
  /\ PoolRunning
  /\ rpool.caller[t].pc = "idle"
  /\ Lockable(rpool.mutex)
  /\ \E o \in FetchOutcomes(rpool.P) :
        rpool' = [rpool EXCEPT
                    !.mutex = IF o.ret = "fault" THEN @ ELSE t,
                    !.P = IF o.ret = "returned" /\ o.r # NULL
                          THEN Replenished(rpool.P) ELSE @,
                    !.caller[t].pc = IF o.ret = "fault" THEN "idle" ELSE "fetch",
                    !.caller[t].r = o.r,
                    !.caller[t].ret = IF o.ret = "returned" THEN "none" ELSE o.ret]

(* fetch, lines 212 and 213: r is popped and returned, the lock released *)
FetchReturn(t) ==
  /\ rpool.caller[t].pc = "fetch"
  /\ rpool' = [rpool EXCEPT
                 !.mutex = NoThread,
                 !.P = IF rpool.caller[t].r = NULL \/ rpool.caller[t].ret = "undefined"
                       THEN @ ELSE Popped(@),
                 !.fetched = TRUE,
                 !.caller[t].pc = "idle",
                 !.caller[t].r = IF rpool.caller[t].ret = "undefined" THEN @ ELSE NULL,
                 !.caller[t].held = IF rpool.caller[t].r \in {NULL, Wild} THEN @
                                    ELSE @ \cup {rpool.caller[t].r}]

(* release(r) of a pointer the caller holds *)
Release(t, r) ==
  /\ PoolRunning
  /\ rpool.caller[t].pc = "idle"
  /\ r \in rpool.caller[t].held
  /\ Lockable(rpool.mutex)
  /\ rpool' = [rpool EXCEPT
                 !.P = release(@, r),
                 !.caller[t].held = @ \ {r}]

NextPool ==
  /\ \E t \in Threads :
        \/ FetchTake(t)
        \/ FetchReturn(t)
        \/ \E r \in rpool.caller[t].held : Release(t, r)
  /\ UNCHANGED <<trie, base, comp_fill_factor, comp_root_branching_factor,
                 cached_stats, file, shiftMode, last, calls, tpool, lru, sync>>

SpecPool == InitPool /\ [][NextPool]_vars

----------------------------------------------------------------------------
(* thread_pool<Policy> (krb/thread_pool.hpp), for the default policy *)

(* The jobs the application has; a job is named by a positive number and   *)
(* the application gives each its own priority.                            *)
MaxJobs == 3

Jobs == 1..MaxJobs

Priority(job) == job

(* todo.top() *)
Top(todo) == CHOOSE j \in todo : \A k \in todo : Priority(k) <= Priority(j)

(* the addresses the nodes of the worker pool can have *)
Workers == 1..MaxThreads

(* thread_pool_worker::init(): no job, and the thread is started.  last    *)
(* tells what became of the job the worker was handed last.                *)
thread_pool_worker ==
  [pc |-> "start", current_job |-> NULL, job_mutex |-> NoThread, last |-> "none"]

(* no worker at this address; ~thread_pool_worker has cancelled and joined *)
(* the thread                                                              *)
NoWorker ==
  [pc |-> "none", current_job |-> NULL, job_mutex |-> NoThread, last |-> "none"]

(* thread_pool_job, with the number of times run() has returned and        *)
(* callback() was invoked, and the thread that invoked callback() last     *)
thread_pool_job == [scheduled |-> FALSE, run |-> 0, callback |-> 0, by |-> "none"]

(* thread_pool(low_watermark, high_watermark, ev_base) *)
thread_pool(low_watermark, high_watermark) ==
  [pool |-> resource_pool(low_watermark, high_watermark, "basic_pool_policy"),
   todo |-> {},
   done |-> <<>>,
   pipe |-> 0,
   main |-> [pc |-> "idle", W |-> NULL],
   worker |-> [w \in Workers |-> NoWorker],
   job |-> [j \in Jobs |-> thread_pool_job],
   fault |-> FALSE]

InitThreads ==
  /\ NoTrie
  /\ \E high_watermark \in 1..MaxThreads : tpool = thread_pool(1, high_watermark)
  /\ rpool = NoObject
  /\ lru = NoObject
  /\ sync = NoObject

(* the workers after the pool has changed from P to Q: the nodes added are *)
(* constructed, the nodes erased are destroyed                             *)
Staffed(worker, P, Q) ==
  [w \in Workers |->
     IF w \in Range(Q.pool) \ Range(P.pool) THEN thread_pool_worker
     ELSE IF w \in Range(P.pool) \ Range(Q.pool) THEN NoWorker
     ELSE worker[w]]

(* schedule(job), line 244 *)
Schedule(job) ==
  /\ ~tpool.fault
  /\ tpool.main.pc = "idle"
  /\ ~tpool.job[job].scheduled
  /\ tpool' = [tpool EXCEPT !.todo = @ \cup {job},
                            !.job[job].scheduled = TRUE,
                            !.main.pc = "run_some_jobs"]

(* run_some_jobs, one turn of its loop up to the assignment of run_job:    *)
(* lines 251 to 265 and 382 to 385                                         *)
Handed(o) ==
  IF tpool.worker[o.r].current_job # NULL
  THEN [tpool EXCEPT !.pool = o.P,
                     !.worker = Staffed(@, tpool.pool, o.P),
                     !.todo = @ \ {Top(tpool.todo)},
                     !.main.pc = "idle"]
  ELSE [tpool EXCEPT !.pool = o.P,
                     !.worker = [Staffed(@, tpool.pool, o.P) EXCEPT
                                   ![o.r].current_job = Top(tpool.todo),
                                   ![o.r].last = "handed"],
                     !.todo = @ \ {Top(tpool.todo)},
                     !.main = [pc |-> "run_job", W |-> o.r]]

RunSomeJobs ==
  /\ ~tpool.fault
  /\ tpool.main.pc = "run_some_jobs"
  /\ IF tpool.todo = {}
     THEN tpool' = [tpool EXCEPT !.main.pc = "idle"]
     ELSE \E o \in FetchOutcomes(tpool.pool) :
             tpool' = IF o.ret # "returned" THEN [tpool EXCEPT !.fault = TRUE]
                      ELSE IF o.r = NULL THEN [tpool EXCEPT !.main.pc = "idle"]
                      ELSE Handed(o)

(* pthread_cond_signal: a thread waiting on the condition is awoken *)
Signalled(pc) == IF pc = "waiting" THEN "awoken" ELSE pc

(* run_job, lines 388 to 395: the mutex is locked, the condition signalled *)
(* and the mutex unlocked                                                  *)
RunJob ==
  /\ ~tpool.fault
  /\ tpool.main.pc = "run_job"
  /\ Lockable(tpool.worker[tpool.main.W].job_mutex)
  /\ tpool' = [tpool EXCEPT !.worker[tpool.main.W].pc = Signalled(@),
                            !.main = [pc |-> "run_some_jobs", W |-> NULL]]

(* the event loop calls thread_pool_catch when the pipe can be read; lines *)
(* 280 to 284 empty the pipe                                               *)
Catch ==
  /\ ~tpool.fault
  /\ tpool.main.pc = "idle"
  /\ tpool.pipe > 0
  /\ tpool' = [tpool EXCEPT !.pipe = 0, !.main.pc = "catch"]

(* P->pool->release of the workers of the completed queue, front first *)
RECURSIVE ReleasedAll(_, _)
ReleasedAll(P, done) ==
  IF done = <<>> THEN P ELSE ReleasedAll(release(P, Head(done)[2]), Tail(done))

(* the callback of a job is invoked by a thread *)
Invoked(job, by) == [job EXCEPT !.callback = @ + 1, !.by = by]

(* the completed queue after the loop of lines 294 to 298 *)
Undrained(done) == done

Drained(done) == <<>>

(* thread_pool_catch, lines 290 to 299, under the lock of the completed    *)
(* queue: every worker of the queue is released, every job's callback      *)
(* invoked, every item popped                                              *)
CatchDone ==
  /\ ~tpool.fault
  /\ tpool.main.pc = "catch"
  /\ tpool' = [tpool EXCEPT
                 !.pool = ReleasedAll(@, tpool.done),
                 !.worker = [w \in Workers |->
                               IF \E i \in 1..Len(tpool.done) : tpool.done[i][2] = w
                               THEN [Staffed(@, tpool.pool,
                                             ReleasedAll(tpool.pool, tpool.done))[w]
                                       EXCEPT !.last = IF @ = "none" THEN @ ELSE "released"]
                               ELSE Staffed(@, tpool.pool,
                                            ReleasedAll(tpool.pool, tpool.done))[w]],
                 !.job = [j \in Jobs |->
                            IF \E i \in 1..Len(tpool.done) : tpool.done[i][1] = j
                            THEN Invoked(@[j], "main") ELSE @[j]],
                 !.done = Drained(@),
                 !.main.pc = "run_some_jobs"]

(* thread_pool_worker_thread, line 321 *)
WorkerLock(w) ==
  /\ ~tpool.fault
  /\ tpool.worker[w].pc = "start"
  /\ Lockable(tpool.worker[w].job_mutex)
  /\ tpool' = [tpool EXCEPT !.worker[w].pc = "locked", !.worker[w].job_mutex = w]

(* line 326, pthread_cond_wait is entered: the mutex is released and the   *)
(* thread waits.  After the continue of line 333 the thread does not hold  *)
(* the mutex, which is undefined: it waits all the same, or the program    *)
(* ends.                                                                   *)
WorkerWait(w) ==
  /\ ~tpool.fault
  /\ \/ /\ tpool.worker[w].pc = "locked"
        /\ tpool' = [tpool EXCEPT !.worker[w].pc = "waiting",
                                  !.worker[w].job_mutex = NoThread]
     \/ /\ tpool.worker[w].pc = "unlocked"
        /\ \/ tpool' = [tpool EXCEPT !.worker[w].pc = "waiting"]
           \/ tpool' = [tpool EXCEPT !.fault = TRUE]

(* pthread_cond_wait may return without a signal *)
SpuriousWake(w) ==
  /\ ~tpool.fault
  /\ tpool.worker[w].pc = "waiting"
  /\ tpool' = [tpool EXCEPT !.worker[w].pc = "awoken"]

(* lines 326 to 333: pthread_cond_wait returns with the mutex, which is    *)
(* unlocked; without a job the thread goes round                           *)
WorkerWake(w) ==
  /\ ~tpool.fault
  /\ tpool.worker[w].pc = "awoken"
  /\ Lockable(tpool.worker[w].job_mutex)
  /\ tpool' = [tpool EXCEPT !.worker[w].pc =
                              IF tpool.worker[w].current_job = NULL
                              THEN "unlocked" ELSE "run"]

(* line 336: run() is called and returns *)
WorkerRun(w) ==
  /\ ~tpool.fault
  /\ tpool.worker[w].pc = "run"
  /\ tpool' = [tpool EXCEPT !.job[tpool.worker[w].current_job].run = @ + 1,
                            !.worker[w].pc = "ran"]

(* lines 343 to 355: the worker's mutex is locked; under the lock of the   *)
(* completed queue the job is pushed, current_job cleared and the pipe     *)
(* written to                                                              *)
WorkerDone(w) ==
  /\ ~tpool.fault
  /\ tpool.worker[w].pc = "ran"
  /\ Lockable(tpool.worker[w].job_mutex)
  /\ tpool' = [tpool EXCEPT
                 !.done = Append(@, <<tpool.worker[w].current_job, w>>),
                 !.pipe = @ + 1,
                 !.worker[w] = [pc |-> "locked", current_job |-> NULL,
                                job_mutex |-> w, last |-> "queued"]]

MainStep ==
  \/ RunSomeJobs
  \/ RunJob
  \/ Catch
  \/ CatchDone

WorkerStep(w) ==
  \/ WorkerLock(w)
  \/ WorkerWait(w)
  \/ WorkerWake(w)
  \/ WorkerRun(w)
  \/ WorkerDone(w)

NextSignalled ==
  /\ \/ \E job \in Jobs : Schedule(job)
     \/ MainStep
     \/ \E w \in Workers : WorkerStep(w)
  /\ UNCHANGED <<trie, base, comp_fill_factor, comp_root_branching_factor,
                 cached_stats, file, shiftMode, last, calls, rpool, lru, sync>>

NextThreads ==
  \/ NextSignalled
  \/ /\ \E w \in Workers : SpuriousWake(w)
     /\ UNCHANGED <<trie, base, comp_fill_factor, comp_root_branching_factor,
                    cached_stats, file, shiftMode, last, calls, rpool, lru, sync>>

SpecThreads == InitThreads /\ [][NextThreads]_vars

(* fair scheduling of the threads and a running event loop, every wait on  *)
(* the condition being ended by a signal                                   *)
SpecThreadsFair ==
  /\ InitThreads
  /\ [][NextSignalled]_vars
  /\ WF_tpool(MainStep)
  /\ \A w \in Workers : WF_tpool(WorkerStep(w))

----------------------------------------------------------------------------
(* lru_cache_t<Key, Data> (krb/lru_cache.hpp) *)

(* lru_list is a sequence of items, the most recently used first; an item  *)
(* is its key and its size (the data play no part in what is kept).        *)
(* key_hash maps the keys of the list to their items: key_hash.find(k) is  *)
(* the position of k in the list, 0 for key_hash.end().                    *)
lru_item_t(k, sz) == [key |-> k, size |-> sz]

find(lru_list, k) ==
  IF \E i \in 1..Len(lru_list) : lru_list[i].key = k
  THEN CHOOSE i \in 1..Len(lru_list) : lru_list[i].key = k
  ELSE 0

(* access(li): lru_list.splice(lru_list.begin(), lru_list, li) *)
accessSkipped(lru_list, li) == lru_list

access(lru_list, li) == <<lru_list[li]>> \o RemoveAt(lru_list, li)

(* lru_cache_t(size_limit) *)
lru_cache_t(size_limit) == [lru_list |-> <<>>, max_size |-> size_limit, cur_size |-> 0]

(* lookup(k): the cache it leaves *)
lookup(C, k) ==
  IF find(C.lru_list, k) # 0
  THEN [C EXCEPT !.lru_list = access(@, find(C.lru_list, k))]
  ELSE C

(* insert, lines 156 to 164: items are discarded from the back of the list *)
(* while the size is over the limit; d collects the keys discarded         *)
RECURSIVE Discard(_, _)
Discard(C, d) ==
  IF C.cur_size > C.max_size
  THEN Discard([C EXCEPT !.cur_size = @ - C.lru_list[Len(C.lru_list)].size,
                         !.lru_list = SubSeq(@, 1, Len(@) - 1)],
               Append(d, C.lru_list[Len(C.lru_list)].key))
  ELSE [C |-> C, discarded |-> d]

(* insert(k, value, sz): the cache it leaves and the keys it discarded *)
insert(C, k, sz) ==
  IF find(C.lru_list, k) # 0
  THEN [C |-> [C EXCEPT !.lru_list = [access(@, find(C.lru_list, k)) EXCEPT ![1].size = sz],
                        !.cur_size = @ - C.lru_list[find(C.lru_list, k)].size + sz],
        discarded |-> <<>>]
  ELSE Discard([C EXCEPT !.lru_list = <<lru_item_t(k, sz)>> \o @,
                         !.cur_size = @ + sz], <<>>)

(* purge(k) *)
purge(C, k) ==
  IF find(C.lru_list, k) # 0
  THEN [C EXCEPT !.cur_size = @ - C.lru_list[find(C.lru_list, k)].size,
                 !.lru_list = RemoveAt(@, find(C.lru_list, k))]
  ELSE C

(* clear() *)
clear(C) == [C EXCEPT !.lru_list = <<>>, !.cur_size = 0]

(* resize(size_limit) *)
resize(C, size_limit) == [C EXCEPT !.max_size = size_limit]

(* The calls of the model: keys 1..MaxKeys, item sizes 1..MaxItem (1 is    *)
(* the default), size limits 1..MaxLimit.                                  *)
MaxKeys == 3

MaxItem == 2

MaxLimit == 3

Keys == 1..MaxKeys

ItemSizes == 1..MaxItem

Limits == 1..MaxLimit

(* The cache with what the last call was, what it returned and, for        *)
(* insert, the keys it discarded in the order it discarded them.  uses is  *)
(* the record of the calls that use a key, the latest first: the keys      *)
(* given to insert and the keys lookup has found, each at its last use.    *)
Called(C, op, k, ret, discarded, uses) ==
  [C |-> C, op |-> op, k |-> k, ret |-> ret, discarded |-> discarded, uses |-> uses]

Use(uses, k) == <<k>> \o SelectSeq(uses, LAMBDA u : u # k)

InitCache ==
  /\ NoTrie
  /\ \E size_limit \in Limits :
        lru = Called(lru_cache_t(size_limit), "new", 0, FALSE, <<>>, <<>>)
  /\ rpool = NoObject
  /\ tpool = NoObject
  /\ sync = NoObject

Insert(k, sz) ==
  lru' = Called(insert(lru.C, k, sz).C, "insert", k, FALSE,
                insert(lru.C, k, sz).discarded, Use(lru.uses, k))

Lookup(k) ==
  lru' = Called(lookup(lru.C, k), "lookup", k, find(lru.C.lru_list, k) # 0, <<>>,
                IF find(lru.C.lru_list, k) # 0 THEN Use(lru.uses, k) ELSE lru.uses)

Purge(k) ==
  lru' = Called(purge(lru.C, k), "purge", k, find(lru.C.lru_list, k) # 0, <<>>, lru.uses)

Clear ==
  lru' = Called(clear(lru.C), "clear", 0, FALSE, <<>>, lru.uses)

Resize(size_limit) ==
  lru' = Called(resize(lru.C, size_limit), "resize", 0, FALSE, <<>>, lru.uses)

NextCache ==
  /\ \/ \E k \in Keys, sz \in ItemSizes : Insert(k, sz)
     \/ \E k \in Keys : Lookup(k)
     \/ \E k \in Keys : Purge(k)
     \/ Clear
     \/ \E size_limit \in Limits : Resize(size_limit)
  /\ UNCHANGED <<trie, base, comp_fill_factor, comp_root_branching_factor,
                 cached_stats, file, shiftMode, last, calls, rpool, tpool, sync>>

SpecCache == InitCache /\ [][NextCache]_vars

----------------------------------------------------------------------------
(* synchronizer_t (krb/synchronizer.hpp) *)

(* The writer is thread 0, the readers are the threads 1..thread_count.    *)
Writer == 0

(* pthread_barrier_init(&barrier, 0, num_threads + 1) *)
PartiesShort(num_threads) == num_threads

Parties(num_threads) == num_threads + 1

pthread_barrier_init(count) == [count |-> count, waiting |-> {}]

(* the writer replaces the shared data at most MaxUpdates times *)
MaxUpdates == 2

(* synchronizer_t(thread_count), with the writer outside acquire_sync and  *)
(* the readers at the top of their loops; data is the version of the data  *)
(* the writer replaces and the readers process, seen the version each      *)
(* reader processed last                                                   *)
synchronizer_t(thread_count) ==
  [num_threads |-> thread_count,
   do_wait |-> FALSE,
   initialized |-> FALSE,
   start_barrier |-> pthread_barrier_init(0),
   end_barrier |-> pthread_barrier_init(0),
   writer |-> "idle",
   reader |-> [t \in Threads |-> IF t <= thread_count THEN "top" ELSE "none"],
   data |-> 0,
   seen |-> [t \in Threads |-> 0]]

InitSync ==
  /\ NoTrie
  /\ \E thread_count \in Threads : sync = synchronizer_t(thread_count)
  /\ rpool = NoObject
  /\ tpool = NoObject
  /\ lru = NoObject

(* where a thread is after pthread_barrier_wait has returned, and while it *)
(* is blocked in it                                                        *)
Past(barrier, t) ==
  IF barrier = "start_barrier"
  THEN IF t = Writer THEN "writing" ELSE "between"
  ELSE IF t = Writer THEN "idle" ELSE "processing"

Blocked(barrier) == IF barrier = "start_barrier" THEN "at_start" ELSE "at_end"

(* pthread_barrier_wait(&barrier) called by the thread t: the count-th     *)
(* thread to arrive releases all the threads blocked in the barrier and    *)
(* returns, any other is blocked                                           *)
Arrived(S, barrier, t) ==
  IF Cardinality(S[barrier].waiting \cup {t}) >= S[barrier].count
  THEN [S EXCEPT
          ![barrier].waiting = {},
          !.writer = IF Writer \in S[barrier].waiting \cup {t}
                     THEN Past(barrier, Writer) ELSE @,
          !.reader = [u \in Threads |->
                        IF u \in S[barrier].waiting \cup {t}
                        THEN Past(barrier, u) ELSE @[u]]]
  ELSE [S EXCEPT
          ![barrier].waiting = @ \cup {t},
          !.writer = IF t = Writer THEN Blocked(barrier) ELSE @,
          !.reader = [u \in Threads |-> IF u = t THEN Blocked(barrier) ELSE @[u]]]

(* acquire_sync, lines 79 to 93 *)
AcquireSignal ==
  /\ sync.writer = "idle"
  /\ sync.data < MaxUpdates
  /\ sync' = [sync EXCEPT
                !.start_barrier = IF sync.initialized THEN @
                                  ELSE pthread_barrier_init(Parties(sync.num_threads)),
                !.end_barrier = IF sync.initialized THEN @
                                ELSE pthread_barrier_init(Parties(sync.num_threads)),
                !.initialized = TRUE,
                !.do_wait = TRUE,
                !.writer = "acquire"]

(* acquire_sync, line 100 *)
AcquireWait ==
  /\ sync.writer = "acquire"
  /\ sync' = Arrived(sync, "start_barrier", Writer)

(* the writer replaces the shared data *)
Replace ==
  /\ sync.writer = "writing"
  /\ sync' = [sync EXCEPT !.data = @ + 1, !.writer = "written"]

(* release_sync, line 108 *)
ReleaseSignal ==
  /\ sync.writer = "written"
  /\ sync' = [sync EXCEPT !.do_wait = FALSE, !.writer = "release"]

(* release_sync, line 113 *)
ReleaseWait ==
  /\ sync.writer = "release"
  /\ sync' = Arrived(sync, "end_barrier", Writer)

(* wait_for_updates, line 121 *)
WaitForUpdates(t) ==
  /\ sync.reader[t] = "top"
  /\ sync' = [sync EXCEPT !.reader[t] = IF sync.do_wait THEN "start" ELSE "processing"]

(* wait_for_updates, line 124 *)
WaitStart(t) ==
  /\ sync.reader[t] = "start"
  /\ sync' = Arrived(sync, "start_barrier", t)

(* wait_for_updates, line 128 *)
WaitEnd(t) ==
  /\ sync.reader[t] = "between"
  /\ sync' = Arrived(sync, "end_barrier", t)

(* the reader's processing of the shared data, down to the top of its loop *)
Process(t) ==
  /\ sync.reader[t] = "processing"
  /\ sync' = [sync EXCEPT !.reader[t] = "top", !.seen[t] = sync.data]

NextSync ==
  /\ \/ AcquireSignal
     \/ AcquireWait
     \/ Replace
     \/ ReleaseSignal
     \/ ReleaseWait
     \/ \E t \in Threads :
           \/ WaitForUpdates(t)
           \/ WaitStart(t)
           \/ WaitEnd(t)
           \/ Process(t)
  /\ UNCHANGED <<trie, base, comp_fill_factor, comp_root_branching_factor,
                 cached_stats, file, shiftMode, last, calls, rpool, tpool, lru>>

SpecSync == InitSync /\ [][NextSync]_vars

----------------------------------------------------------------------------
(* What the properties speak of *)

(* the address x agrees with the entry e on its first e.len bits *)
Covers(e, x) == \A i \in 1..e.len : e.str[i] = x[i]

(* some entry of the sequence covers x *)
CoveredBy(entries, x) == \E i \in 1..Len(entries) : Covers(entries[i], x)

(* the entries of an input list, one by one *)
Entries(strings) == [i \in 1..Len(strings) |-> strings[i].e]

(* what search answers in this state *)
Found(x) == search(trie, base, x).found

BuildSucceeded == last.op = "build" /\ last.ret = "true"

(* a is a prefix of b; the bits of e beyond its length are zero *)
IsPrefixOf(a, b) == a.len <= b.len /\ Covers(a, b.str)

TailZero(e) == \A i \in (e.len + 1)..adrsize : e.str[i] = 0

(* no entry is a prefix of another and every entry's tail is zero *)
Minimal(entries) ==
  /\ \A i, j \in 1..Len(entries) : i # j => ~IsPrefixOf(entries[i], entries[j])
  /\ \A i \in 1..Len(entries) : TailZero(entries[i])

----------------------------------------------------------------------------
(* Coverage and membership, on the compilation specification *)

(* C1: after a build that returned true, search returns true for the       *)
(* address of every entry of the input list and for every address that     *)
(* agrees with an entry on its first len bits, whatever the other entries  *)
(* are.                                                                    *)
C1_Coverage ==
  BuildSucceeded =>
    \A i \in 1..Len(last.arg) :
       \A x \in Probes \cup {last.arg[i].e.str} :
          Covers(last.arg[i].e, x) => Found(x)

(* C3: when no input entry is a prefix of another and every entry's bits   *)
(* beyond its length are zero, search on the built trie is true exactly    *)
(* for the addresses some input entry covers.                              *)
C3_ExactMembership ==
  (BuildSucceeded /\ Minimal(Entries(last.arg))) =>
    \A x \in Probes : Found(x) <=> CoveredBy(Entries(last.arg), x)

(* the input is a prefix P and a longer prefix Q lying inside P *)
Nested(P, Q) == P.len < Q.len /\ Covers(P, Q.str)

(* C4: when the input holds a prefix P and a longer prefix Q inside P,     *)
(* search returns true for every address under Q, true for every address   *)
(* under P that is not under Q, and false for every address under neither. *)
C4_NestedPrefixes ==
  \A p, q \in 1..Len(last.arg) :
     (BuildSucceeded /\ Len(last.arg) = 2 /\ Nested(last.arg[p].e, last.arg[q].e)) =>
       \A x \in Probes :
          Found(x) <=> (Covers(last.arg[q].e, x) \/ Covers(last.arg[p].e, x))

(* C9: for every build that passes the capacity check, with any fill       *)
(* factor and any root branching override, the final node count is at most *)
(* 2^20 and every child-block index and base index stored in a node fits   *)
(* the 20-bit address field: read back, it lies inside the array it        *)
(* indexes.                                                                *)
C9_NodesFitAddressField ==
  (last.op = "build" /\ last.ret # "false") =>
    /\ last.out.nextfree <= 2 ^ 20
    /\ last.ret = "true" =>
         \A i \in 1..Len(trie) :
            IF GETBRANCH(trie[i]) = 0
            THEN GETADR(trie[i]) < Len(base)
            ELSE GETADR(trie[i]) + Pow2(GETBRANCH(trie[i])) <= Len(trie)

----------------------------------------------------------------------------
(* Search, persistence and rebuilding, on the life-cycle specification *)

(* the answer r to a search for x is sound for the base vector b *)
Sound(b, x, r) == ~r.fault /\ (r.found => CoveredBy(b, x))

(* C2: on any built or loaded trie, search returns true only if some entry *)
(* of the base vector agrees with the address on its first len bits, and   *)
(* it stays inside the arrays; an address agreeing with no entry yields    *)
(* false, whichever leaf the descent lands on.                             *)
C2_NoFalsePositives ==
  Running => \A x \in Probes : Sound(base, x, search(trie, base, x))

(* a search on a trie of several nodes reached a leaf and answered false   *)
(* for an address that no entry covers                                     *)
C2_Witness ==
  /\ last.op = "search" /\ last.ret = "false"
  /\ Len(trie) > 1 /\ last.out.baseReads = 1
  /\ ~CoveredBy(base, last.arg)

(* C5: a trie that was never successfully built or loaded (its node array  *)
(* is as the constructor left it, empty) returns false from search for     *)
(* every address, without reading the node array or the base vector.       *)
C5_EmptyTrie ==
  /\ last.op = "new" => trie = <<>>
  /\ trie = <<>> =>
       \A x \in Probes : search(trie, base, x) = SearchResult(FALSE, FALSE, 0, 0)
  /\ (last.op = "search" /\ trie = <<>>) =>
       (last.ret = "false" /\ last.out = SearchResult(FALSE, FALSE, 0, 0))

(* a search on an empty trie, a file being there to load *)
C5_Witness ==
  /\ last.op = "search" /\ trie = <<>> /\ base = <<>>
  /\ last.ret = "false" /\ file.exists

C7_FailedLoadLeavesState ==
  [][(last'.op = "load" /\ last'.ret # "true") =>
       (last'.ret = "false" /\ UNCHANGED object)]_vars

(* C8: build called with more than 2^19 entries returns false and changes  *)
(* nothing: node array, base vector, parameters and cached statistics keep *)
(* their values and the input list is not reordered; build called with     *)
(* exactly 2^19 entries is not rejected by the capacity check.             *)
C8_CapacityCheck ==
  [][/\ (last'.op = "build" /\ ListSize(last'.arg) > 2 ^ 19) =>
          (last'.ret = "false" /\ UNCHANGED object /\ last'.out.strings = last'.arg)
     /\ (last'.op = "build" /\ ListSize(last'.arg) = 2 ^ 19) =>
          last'.ret # "false"]_vars

(* a build with 2^19 + 1 entries was rejected on a trie that holds a       *)
(* compiled set and its cached statistics                                  *)
C8_Witness ==
  /\ last.op = "build" /\ ListSize(last.arg) = 2 ^ 19 + 1
  /\ last.ret = "false"
  /\ trie # <<>> /\ cached_stats # NoStats

(* C10: a successful build on a trie that already holds a compiled or      *)
(* loaded prefix set produces the same node array and base vector as the   *)
(* same build on a fresh trie with the same parameters.                    *)
C10_RebuildReplaces ==
  BuildSucceeded =>
    /\ trie = build(<<>>, <<>>, last.arg).trie
    /\ base = build(<<>>, <<>>, last.arg).base

----------------------------------------------------------------------------
(* Canonical form, on the specification of orderings *)

(* the outcome r of a build left the arrays this trie has *)
SameArrays(r) == r.trie = trie /\ r.base = base

----------------------------------------------------------------------------
(* The base vector after a build, on the life cycle *)

(* C12: after every successful build, first or repeated, the base vector   *)
(* is strictly increasing in the (address, then prefix length) order,      *)
(* holds no two equal entries, and holds exactly the distinct entries of   *)
(* that build's input list.                                                *)
C12_BaseOfThisBuild ==
  BuildSucceeded =>
    /\ \A i \in 1..(Len(base) - 1) : strcmp(base[i], base[i + 1]) < 0
    /\ \A i, j \in 1..Len(base) : i # j => base[i] # base[j]
    /\ {base[i] : i \in 1..Len(base)} = {last.arg[i].e : i \in 1..Len(last.arg)}

----------------------------------------------------------------------------
(* The statistics string and its cache, on the life cycle *)

(* C13: two stats calls with no build or load between them return the      *)
(* identical string and the second call changes no field of the trie, for  *)
(* an empty trie as well as a compiled one; the calls that may come        *)
(* between them, search and save, change no field either.                  *)
C13_StatsRepeatable ==
  [][/\ (last.op = "stats" /\ last'.op = "stats") =>
          (last'.out = last.out /\ UNCHANGED object)
     /\ (last'.op \in {"search", "save"}) => UNCHANGED object]_vars

(* stats has answered for a compiled trie and its answer is the cached one *)
C13_Witness ==
  /\ last.op = "stats" /\ Len(trie) > 1
  /\ cached_stats = <<last.out>>
  /\ stats(trie, base, comp_fill_factor, comp_root_branching_factor, cached_stats).out
       = last.out

C15_CacheNeverStale ==
  (last.ret # "fault" /\ cached_stats # NoStats) =>
    cached_stats[1] = stats(trie, base, comp_fill_factor,
                            comp_root_branching_factor, NoStats).out

----------------------------------------------------------------------------
(* The query phase, on the specification of the threads *)

(* what the call c returns when it runs alone on this trie *)
Alone(c) ==
  IF c.op = "stats"
  THEN Returned(c, "void", <<stats(trie, base, comp_fill_factor,
                                   comp_root_branching_factor, cached_stats).out>>)
  ELSE Returned(c, IF search(trie, base, c.ip).fault THEN "fault"
                   ELSE IF search(trie, base, c.ip).found THEN "true" ELSE "false",
                <<>>)

(* C16: in the query phase, no step of any interleaving of search calls    *)
(* and of stats calls made after the cache was populated writes a field of *)
(* the trie, and each call returns what it returns when run alone.         *)
C16_QueriesReadOnly ==
  [][calls' # calls =>
       /\ UNCHANGED object
       /\ \A th \in Threads :
            calls'.thread[th].pc = "returned" =>
              calls'.thread[th] = Alone(calls'.thread[th])]_vars

(* a search has returned a hit while another thread was inside a call *)
C16_Witness ==
  \E th, other \in Threads :
    /\ calls.thread[th].pc = "returned" /\ calls.thread[th].op = "search"
    /\ calls.thread[th].ret = "true"
    /\ calls.thread[other].pc \in {"descend", "stats"}
    /\ Len(trie) > 1

----------------------------------------------------------------------------
(* The descent of search, on compilation alone *)

(* the values of pos + branch at the reads EXTRACT(pos, branch, ip) of the *)
(* loop of search, from the node with these fields on                      *)
RECURSIVE ReadOffsets(_, _, _, _, _, _)
ReadOffsets(t, ip, pos, branch, adr, reads) ==
  IF branch = 0 \/ reads > Len(t) \/ adr + ExtractValue(pos, branch, ip) >= Len(t)
  THEN IF branch = 0 THEN {} ELSE {pos + branch}
  ELSE {pos + branch} \cup
       ReadOffsets(t, ip,
                   pos + branch + GETSKIP(At(t, adr + ExtractValue(pos, branch, ip))),
                   GETBRANCH(At(t, adr + ExtractValue(pos, branch, ip))),
                   GETADR(At(t, adr + ExtractValue(pos, branch, ip))),
                   reads + 1)

Offsets(t, ip) ==
  IF Len(t) = 0 THEN {}
  ELSE ReadOffsets(t, ip, GETSKIP(At(t, 0)), GETBRANCH(At(t, 0)), GETADR(At(t, 0)), 1)

(* C17: for every trie a successful build produced and every query         *)
(* address, the descent of search reaches a leaf after finitely many       *)
(* steps, every node index it reads is below the length of the node array, *)
(* the leaf's address is below the length of the base vector, and the bit  *)
(* offset plus branch of every read is at most the address width.          *)
C17_DescentInBounds ==
  BuildSucceeded =>
    \A x \in Probes :
      /\ ~search(trie, base, x).fault
      /\ search(trie, base, x).nodeReads <= Len(trie)
      /\ search(trie, base, x).baseReads = 1
      /\ \A o \in Offsets(trie, x) : o <= adrsize

----------------------------------------------------------------------------
(* Compilation from a text file *)

(* the address text is not a dotted quad of four fields of 0..255 *)
MalformedAddress(l) == ~(Len(l.addr) = 4 /\ \A i \in 1..4 : l.addr[i] \in 0..255)

(* the text after the slash is not a decimal number *)
MalformedLength(l) ==
  l.slash /\ (l.len = <<>> \/ \E i \in 1..Len(l.len) : DigitOf(l.len[i]) < 0)

(* C18: compile_lc_trie returns failure, without calling build and with    *)
(* the trie unchanged, whenever a line of the file holds a malformed       *)
(* address or a malformed prefix-length text.                              *)
C18_MalformedLineRejected ==
  [][(/\ last'.op = "compile"
      /\ \E i \in 1..Len(last'.arg) :
            MalformedAddress(last'.arg[i]) \/ MalformedLength(last'.arg[i])) =>
       (last'.ret = "false" /\ ~last'.out.called /\ UNCHANGED object)]_vars

----------------------------------------------------------------------------
(* The 128-bit address, on the specification of its two operations *)

(* the 128 bits of an ipv6, most significant first *)
Joined(str) ==
  [i \in 1..(2 * wordsize) |-> IF i <= wordsize THEN str.hi[i] ELSE str.lo[i - wordsize]]

(* (v << p) >> (128 - n), taken on 128 bits *)
Window(v, p, n) ==
  [i \in 1..(2 * wordsize) |->
     IF i - (2 * wordsize - n) >= 1 /\ i - (2 * wordsize - n) + p <= 2 * wordsize
     THEN v[i - (2 * wordsize - n) + p] ELSE 0]

(* v with its leading p bits cleared *)
Cleared(v, p) == [i \in 1..(2 * wordsize) |-> IF i <= p THEN 0 ELSE v[i]]

(* C19: for the 128-bit address of two 64-bit halves, extract(pos, n,      *)
(* addr) is (addr << pos) >> (128 - n) taken on 128 bits for every pos >=  *)
(* 0 and n >= 1 with pos + n <= 128, and remove(pos, addr) is addr with    *)
(* its leading pos bits cleared for every pos in 0..128; pos = 64, n = 64  *)
(* and ranges across the boundary of the halves included.                  *)
C19_WideExtractRemove ==
  /\ last.op = "extract" =>
       Joined(last.out) = Window(Joined(last.arg.str), last.arg.p, last.arg.n)
  /\ last.op = "remove" =>
       Joined(last.out) = Cleared(Joined(last.arg.str), last.arg.p)

----------------------------------------------------------------------------
(* The shift counts of search, on compilation alone *)

(* the counts by which the calls of EXTRACT in search shift a 32-bit word: *)
(* str << p and >> (32 - n) for EXTRACT(pos, branch, ip) at every node     *)
(* read and for EXTRACT(0, len, bitmask) at the leaf                       *)
RECURSIVE ShiftsFrom(_, _, _, _, _, _, _)
ShiftsFrom(t, b, ip, pos, branch, adr, reads) ==
  IF branch = 0
  THEN IF adr >= Len(b) THEN {} ELSE {0, adrsize - At(b, adr).len}
  ELSE {pos, adrsize - branch} \cup
       (IF reads > Len(t) \/ adr + ExtractValue(pos, branch, ip) >= Len(t)
        THEN {}
        ELSE ShiftsFrom(t, b, ip,
               pos + branch + GETSKIP(At(t, adr + ExtractValue(pos, branch, ip))),
               GETBRANCH(At(t, adr + ExtractValue(pos, branch, ip))),
               GETADR(At(t, adr + ExtractValue(pos, branch, ip))),
               reads + 1))

ShiftsOfSearch(t, b, ip) ==
  IF Len(t) = 0 THEN {}
  ELSE ShiftsFrom(t, b, ip, GETSKIP(At(t, 0)), GETBRANCH(At(t, 0)), GETADR(At(t, 0)), 1)

(* C20: no call of extract or remove reachable from build or search shifts *)
(* a machine word by an amount equal to or larger than its width; here for *)
(* the 32-bit address and the calls search makes, the leaf check of an     *)
(* entry of prefix length 0 included.                                      *)
C20_NoOverwideShift ==
  BuildSucceeded =>
    \A x \in Probes : \A k \in ShiftsOfSearch(trie, base, x) : k \in 0..(adrsize - 1)

----------------------------------------------------------------------------
(* The result of save, on the life cycle *)

(* C21: save returns false whenever opening the file, compressing or       *)
(* writing any part of the stream fails, a failure that shows only when    *)
(* the compressed stream is flushed included; it returns true only when    *)
(* the complete stream was written; and it never changes the trie.         *)
C21_SaveReportsFailure ==
  [][last'.op = "save" =>
       /\ UNCHANGED object
       /\ last'.ret = "true" <=>
            (file'.exists /\ file'.items = serialize(trie, base, comp_fill_factor,
                                                     comp_root_branching_factor,
                                                     cached_stats))]_vars

----------------------------------------------------------------------------
(* The branch field, on compilation with a root branching factor *)

(* C22, as stated: every node written by build has a branch value of at    *)
(* most 8 (at most 256 children), for every input list within capacity,    *)
(* every fill factor and every root branching override.                    *)
C22_BranchAtMostEight ==
  BuildSucceeded => \A i \in 1..Len(trie) : GETBRANCH(trie[i]) <= 8

(* C22, amended: the root branching override is taken as it is.  After a   *)
(* successful build of more than two entries with an override r > 0 the    *)
(* root node has branch r and the 2^r slots after it are its children,     *)
(* whether r is above 8 or not; and the 2^b children of every node of      *)
(* branch b > 0 lie inside the node array.                                 *)
C22_BranchAsGiven ==
  BuildSucceeded =>
    /\ (Len(base) > 2 /\ comp_root_branching_factor > 0) =>
          /\ GETBRANCH(trie[1]) = comp_root_branching_factor
          /\ Len(trie) >= 1 + 2 ^ comp_root_branching_factor
    /\ \A i \in 1..Len(trie) :
          GETADR(trie[i]) + 2 ^ GETBRANCH(trie[i]) <= Len(trie) \/ GETBRANCH(trie[i]) = 0

(* a build with the override 9 has written a root of 512 children *)
C22_Witness ==
  /\ BuildSucceeded /\ comp_root_branching_factor = 9
  /\ GETBRANCH(trie[1]) = 9 /\ Len(trie) = 513

----------------------------------------------------------------------------
(* The resource pool, on the pool specification *)

(* C25: for a pool with 1 <= low watermark <= high watermark and any of    *)
(* the four sizing policies, after any sequence of fetch and release calls *)
(* allocated() is at most the high watermark, and once a fetch has         *)
(* returned it is at least the low watermark.                              *)
C25_WithinWatermarks ==
  rpool.P.wm_low >= 1 =>
    /\ allocated(rpool.P) <= rpool.P.wm_high
    /\ rpool.fetched => allocated(rpool.P) >= rpool.P.wm_low

(* a pool that grew to its high watermark and was shrunk by a release: its *)
(* first resource is gone                                                  *)
C25_Witness ==
  /\ rpool.P.wm_low = 1
  /\ rpool.P.wm_high = MaxHigh
  /\ rpool.fetched
  /\ allocated(rpool.P) = 1
  /\ 1 \notin Range(rpool.P.pool)

(* the step in which the thread t enters fetch *)
Fetching(t) ==
  /\ rpool.caller[t].pc = "idle"
  /\ rpool'.caller[t].pc = "fetch" \/ rpool'.caller[t].ret = "fault"

(* C26: for any watermarks low <= high, a low watermark of 0 included,     *)
(* fetch returns NULL exactly when no resource is free and allocated() has *)
(* reached the high watermark, and in every other state it returns a       *)
(* resource of the pool.                                                   *)
C26_FetchNullOnlyWhenExhausted ==
  [][\A t \in Threads :
       Fetching(t) =>
         /\ rpool'.caller[t].ret \notin {"fault", "undefined"}
         /\ rpool'.caller[t].r = NULL <=>
              (free(rpool.P) = 0 /\ allocated(rpool.P) >= rpool.P.wm_high)
         /\ rpool'.caller[t].r # NULL => rpool'.caller[t].r \in Range(rpool'.P.pool)]_vars

(* C27: under any interleaving of fetch and release calls of several       *)
(* threads, each release giving back a resource an earlier fetch returned, *)
(* no resource is held by two fetchers at once and no held resource has    *)
(* been destroyed.                                                         *)
C27_HeldByOneAndAlive ==
  /\ \A t, u \in Threads :
        t # u => rpool.caller[t].held \cap rpool.caller[u].held = {}
  /\ \A t \in Threads : rpool.caller[t].held \subseteq Range(rpool.P.pool)
  /\ \A t \in Threads : rpool.caller[t].held \cap Range(rpool.P.open) = {}

(* every thread holds a resource after a release has shrunk the pool: a    *)
(* resource is gone that was allocated before one still there              *)
C27_Witness ==
  /\ \A t \in Threads : rpool.caller[t].held # {}
  /\ \E a \in Range(rpool.P.pool) : \E b \in 1..(a - 1) : b \notin Range(rpool.P.pool)

----------------------------------------------------------------------------
(* The thread pool, on the thread pool's specifications *)

(* C23: under fair scheduling of the threads and a running event loop,     *)
(* every job passed to schedule is eventually run by a worker thread and   *)
(* has its callback invoked, whatever the interleaving of the scheduling   *)
(* thread with the start of newly created worker threads, a job handed to  *)
(* a worker that does not yet wait for work included.                      *)
C23_EveryJobRunsAndCallsBack ==
  \A j \in Jobs :
    tpool.job[j].scheduled ~> (tpool.job[j].run >= 1 /\ tpool.job[j].callback >= 1)

----------------------------------------------------------------------------
(* The cache, on the cache's specification *)

(* C28: after every insert, of a new key or of a key already cached with   *)
(* another item size, and after any sequence of insert, lookup, purge,     *)
(* clear and resize calls before it, size() is at most size_limit().       *)
C28_SizeWithinLimitAfterInsert ==
  lru.op = "insert" => lru.C.cur_size <= lru.C.max_size

(* k was used later than j, by the record of the uses *)
UsedLater(uses, k, j) ==
  \E a, b \in 1..Len(uses) : uses[a] = k /\ uses[b] = j /\ a < b

(* C29: the items insert discards are discarded in least-recently-used     *)
(* order, an item being used by every insert of its key and every lookup   *)
(* that finds it: of two cached keys, the one used later is never          *)
(* discarded before the other, and never discarded while the other stays.  *)
C29_DiscardsLeastRecentlyUsed ==
  lru.op = "insert" =>
    /\ \A a, b \in 1..Len(lru.discarded) :
          a < b => UsedLater(lru.uses, lru.discarded[b], lru.discarded[a])
    /\ \A a \in 1..Len(lru.discarded) : \A i \in 1..Len(lru.C.lru_list) :
          UsedLater(lru.uses, lru.C.lru_list[i].key, lru.discarded[a])

(* an insert has discarded two items, the one used last after the other,   *)
(* and kept the item it inserted                                           *)
C29_Witness ==
  /\ lru.op = "insert"
  /\ Len(lru.discarded) = 2
  /\ UsedLater(lru.uses, lru.discarded[2], lru.discarded[1])
  /\ Len(lru.C.lru_list) = 1

----------------------------------------------------------------------------
(* The synchronizer, on the synchronizer's specification *)

(* C30: with one writer and thread_count readers, from the writer's return *)
(* from acquire_sync to its call of release_sync every reader is inside    *)
(* wait_for_updates, past the start barrier and not past the end barrier,  *)
(* so that none runs its processing; and a reader that finds no update     *)
(* pending leaves wait_for_updates at once.                                *)
C30_ReadersHeldWhileWriting ==
  [][/\ sync'.writer \in {"writing", "written"} =>
          \A t \in Threads : sync'.reader[t] \in {"none", "between", "at_end"}
     /\ \A t \in Threads :
          (sync.reader[t] = "top" /\ sync'.reader[t] # "top" /\ ~sync.do_wait) =>
             sync'.reader[t] = "processing"]_vars

(* the writer writes while one of several readers has reached the end      *)
(* barrier and another has not                                             *)
C30_Witness ==
  /\ sync.writer = "written"
  /\ \E t \in Threads : sync.reader[t] = "at_end"
  /\ \E t \in Threads : sync.reader[t] = "between"

----------------------------------------------------------------------------
(* The leaf comparison and the layout of the node array, on the            *)
(* compilation specification                                               *)

(* C31: at a leaf, search returns true exactly when the query address and  *)
(* the stored entry agree on the entry's first len bits, for every len     *)
(* from 0 to the address width; an entry of prefix length 0 matches every  *)
(* address.                                                                *)
C31_LeafComparison ==
  BuildSucceeded =>
    \A adr \in 0..(Len(base) - 1) :
       \A x \in Probes : Hit(base, adr, x) <=> Covers(At(base, adr), x)

(* the pass of build_recursive that the build of this state made: on a     *)
(* fresh trie the base vector holds the entries the pass was given         *)
PassOf(b) ==
  build_recursive(Pass(<<>>, 1, NoFault, <<>>), b, 0, 0, Len(b), 0, 2 * Len(b) + Preallocated)

(* build was called and went past its capacity check *)
BuildEntered == last.op = "build" /\ last.ret # "false" /\ Len(base) >= 1

(* C32: build returns after finitely many steps for every list of 1 to     *)
(* 2^19 entries with prefix lengths in 0..32, also when two entries have   *)
(* the same address and different prefix lengths: the common-prefix scan   *)
(* of compute_branch finds a differing bit before bit 32 and ends.         *)
C32_BuildReturns ==
  BuildEntered => PassOf(base).fault # "hang"

(* slot idx of the node array t is a leaf that points to entry e of the    *)
(* base vector: branch and skip are 0 and the address field is e           *)
LeafTo(t, idx, e) == idx < Len(t) /\ At(t, idx) = e

(* the turn u of a loop over the bit patterns met exactly one entry, and   *)
(* its prefix length ends before newprefix + branch                        *)
ShortPrefix(b, u) == u.k = 1 /\ At(b, u.p).len < u.newprefix + u.branch

(* the slots the short prefix of turn u stands for: from its bit pattern   *)
(* up to the pattern + 2^(newprefix + branch - len) - 1.  No node array    *)
(* has 2^21 slots, so a wider span is not all there.                       *)
FannedOut(t, b, u) ==
  /\ u.newprefix + u.branch - At(b, u.p).len <= 20
  /\ \A s \in u.bitpat..(u.bitpat + 2 ^ (u.newprefix + u.branch - At(b, u.p).len) - 1) :
        LeafTo(t, u.adr + s, u.p)

(* C33: when a child bit pattern is matched by exactly one entry whose     *)
(* prefix length ends before newprefix + branch, then in the finished node *)
(* array every child slot from that pattern up to the pattern +            *)
(* 2^(newprefix + branch - len) - 1 is a leaf pointing to that entry: the  *)
(* later turns of the loop do not replace those leaves.                    *)
C33_FanOutKept ==
  BuildSucceeded =>
    \A st \in {PassOf(base)} :
       \A i \in 1..Len(st.log) :
          ShortPrefix(base, st.log[i]) => FannedOut(trie, base, st.log[i])

(* the slots the turn u wrote, from adr + bitpat on: one for an empty      *)
(* pattern or a subtree, 1 << bits for a short prefix                      *)
SlotsOf(u) == IF ShiftCount(u.bits) = adrsize THEN 0 ELSE 2 ^ ShiftCount(u.bits)

(* the writes of the turn u lie inside the 1 << branch slots reserved for  *)
(* the node whose children it lays out, and so below nextfree as it was    *)
InsideBlock(u) ==
  \/ ShiftCount(u.bits) = adrsize
  \/ /\ ShiftCount(u.bits) <= u.branch
     /\ u.bitpat + SlotsOf(u) <= 2 ^ u.branch
     /\ u.adr + u.bitpat + SlotsOf(u) <= u.nextfree

(* C34: every node write made while laying out the children of an          *)
(* internal node lands inside the 2^branch contiguous slots reserved for   *)
(* that node: none lands in the block of another node, on a subtree built  *)
(* before, or at an index at or beyond nextfree or the size the array was  *)
(* given before the pass.                                                  *)
C34_WritesInsideBlock ==
  BuildEntered =>
    \A st \in {PassOf(base)} :
       /\ st.fault # "overflow"
       /\ \A i \in 1..Len(st.log) : InsideBlock(st.log[i])

(* the internal nodes of the node array t, by index, and the child block   *)
(* of the internal node at index i                                         *)
InternalNodes(t) == {i \in 0..(Len(t) - 1) : GETBRANCH(At(t, i)) # 0}

ChildBlock(t, i) == GETADR(At(t, i))..(GETADR(At(t, i)) + 2 ^ GETBRANCH(At(t, i)) - 1)

RECURSIVE BlockSizes(_, _)
BlockSizes(t, S) ==
  IF S = {} THEN 0
  ELSE LET i == CHOOSE x \in S : TRUE
       IN  2 ^ GETBRANCH(At(t, i)) + BlockSizes(t, S \ {i})

(* C35: after a successful build on a fresh trie, index 0 is the root, the *)
(* node array has 1 + the sum of 2^branch over its internal nodes          *)
(* elements, every index from 1 up lies in the child block of exactly one  *)
(* internal node, and every slot holds a node the pass of this build       *)
(* wrote; a list of one entry gives a one-node array whose root is a leaf  *)
(* with branch 0, skip 0 and address 0.                                    *)
C35_ArrayIsTheBlocks ==
  BuildSucceeded =>
    /\ Len(trie) = 1 + BlockSizes(trie, InternalNodes(trie))
    /\ \A idx \in 1..(Len(trie) - 1) :
          Cardinality({i \in InternalNodes(trie) : idx \in ChildBlock(trie, i)}) = 1
    /\ \A st \in {PassOf(base)} :
          /\ st.nextfree = Len(trie)
          /\ \A idx \in 0..(Len(trie) - 1) : idx \in DOMAIN st.w /\ At(trie, idx) = st.w[idx]
    /\ Len(base) = 1 => trie = <<0>>

(* the base indices of the leaves that the descent can reach from index i  *)
(* of the node array t, going down at most fuel levels                     *)
RECURSIVE LeafTargets(_, _, _)
LeafTargets(t, i, fuel) ==
  IF i >= Len(t) THEN {}
  ELSE IF GETBRANCH(At(t, i)) = 0 THEN {GETADR(At(t, i))}
  ELSE IF fuel = 0 THEN {}
  ELSE UNION {LeafTargets(t, GETADR(At(t, i)) + s, fuel - 1) :
                s \in 0..(2 ^ GETBRANCH(At(t, i)) - 1)}

(* C36: after a successful build, every entry of the base vector is the    *)
(* target of at least one leaf reachable from the root, also an entry that *)
(* is a strict sub-prefix or super-prefix of another entry.                *)
C36_EveryEntryHasALeaf ==
  BuildSucceeded =>
    \A leaves \in {LeafTargets(trie, 0, Len(trie))} :
       \A e \in 0..(Len(base) - 1) : e \in leaves

(* the turn u belongs to the root, whose children start at index 1, and    *)
(* the root's branch was taken from the root branching factor              *)
Forced(u) == comp_root_branching_factor > 0 /\ u.adr = 1 /\ u.n # 2

(* the bit patterns of branch bits at newprefix that the entries of the    *)
(* range of u show                                                         *)
PatternsOf(b, u) ==
  {ExtractValue(u.newprefix, u.branch, At(b, j).str) : j \in u.first..(u.first + u.n - 1)}

(* C37: every internal node whose branch was computed by the search of     *)
(* compute_branch (not forced by the root override) and is 2 or more has   *)
(* at least fill_factor x 2^branch child bit patterns matched by an entry  *)
(* of its range, and newprefix + branch is at most the address width; a    *)
(* range of exactly two entries gets branch 1, also at the root when a     *)
(* root override is configured.                                            *)
C37_BranchFilledAndInWidth ==
  BuildEntered =>
    \A st \in {PassOf(base)} :
       \A i \in 1..Len(st.log) :
          /\ (st.log[i].branch >= 2 /\ ~Forced(st.log[i])) =>
                /\ FillDen(Cardinality(PatternsOf(base, st.log[i])))
                     >= Fill(2 ^ st.log[i].branch)
                /\ st.log[i].newprefix + st.log[i].branch <= adrsize
          /\ st.log[i].n = 2 => st.log[i].branch = 1

(* without a root override a list of three entries got a root that         *)
(* branches on 2 bits                                                      *)
C37_Witness ==
  /\ BuildSucceeded
  /\ comp_root_branching_factor = 0
  /\ Len(base) = 3
  /\ GETBRANCH(At(trie, 0)) = 2

(* no entry of the range of turn u shows the bit pattern of the turn *)
EmptyPattern(b, u) == u.bitpat \notin PatternsOf(b, u)

(* the nearest neighbour in sorted order: the first entry of the range     *)
(* whose pattern lies above the turn's, or the last entry of the range     *)
LaterEntries(b, u) ==
  {j \in u.first..(u.first + u.n - 1) :
     ExtractValue(u.newprefix, u.branch, At(b, j).str) > u.bitpat}

Neighbour(b, u) ==
  IF LaterEntries(b, u) = {} THEN u.first + u.n - 1 ELSE Least(LaterEntries(b, u))

(* the writes that the loop body makes in the turn u *)
WritesOf(b, u) ==
  Subtree(Pass(<<>>, u.nextfree, NoFault, <<>>), b, u.newprefix, u.branch, u.first, u.n,
          u.adr, u.bitpat, u.p, 2 * Len(b) + Preallocated, u.k).w

----------------------------------------------------------------------------
(* The empty list, on the life-cycle specification *)

(* C39: build called with an empty entry list, as compile_lc_trie calls it *)
(* for an empty prefix file, reads no element of the list, returns without *)
(* fault, and leaves a trie on which search returns false for every        *)
(* address.                                                                *)
C39_EmptyListBuilds ==
  (last.op = "build" /\ last.arg = <<>>) =>
    /\ last.ret \in {"true", "false"}
    /\ \A x \in Probes : ~search(trie, base, x).fault /\ ~search(trie, base, x).found

====
